---- MODULE Spec2Model ----
(***************************************************************************)
(* Prism Core: the standardization pipeline.                               *)
(*   - ChainSanitizer.Clean      (pkg/core/services/sanitizer.go)          *)
(*   - TimeAligner.FindSnapshot  (pkg/core/domain/aligner.go)              *)
(*   - CoreStandardizer          (pkg/core/services/standardizer.go)       *)
(* Timestamps are integers counted from the zero time of time.Time, the    *)
(* origin time.Truncate rounds to.  Values are integers (the float64       *)
(* readings are only compared, subtracted and copied by the sanitizer).    *)
(***************************************************************************)
EXTENDS Integers, Sequences, FiniteSets, TLC

\* ------------------------------------------------------------------ bounds
\* Largest number of readings in a batch handed to Clean.
MaxBatch == 3

\* Largest number of readings in a series handed to FindSnapshot.
MaxSeries == 3
\* Largest Timestamp and target of the FindSnapshot inputs.
MaxAlignTime == 6
\* Largest Tolerance of the aligner.
MaxTolerance == 2

\* Largest number of readings in a batch handed to ProcessAndStandardize.
MaxRaw == 2
\* Readings resolve Resolution steps per unit of ValueScaled: a Value v
\* stands for the float v / (Resolution * DefaultScaleFactor).
Resolution == 10

Devices == {"D1", "D2"}
Times == {0, 1}
Values == {0, 1}
\* Timestamps, intervals and concurrency limits of the standardizer runs.
StdTimes == {0, 1, 2, 3}
Intervals == {2, 3}
ConcurrencyLimits == {1, 2}

\* ------------------------------------------------------------ value model
\* domain.Reading; id is the position of the reading in the caller's batch
\* (Go readings have no identity of their own; the position tells two equal
\* readings apart).
Reading(i, d, t, v) == [id |-> i, dev |-> d, ts |-> t, val |-> v]

\* A *domain.Reading: <<>> is nil, <<r>> points to r.
Nil == << >>
Ptr(r) == << r >>

\* domain.QuarantineReading as built by Clean (ID, RuleID, BatchID keep
\* their zero values).
QuarantineReading(r, reason) ==
    [Reading |-> r, Status |-> "PENDING", Reason |-> reason,
     ID |-> "", RuleID |-> "", BatchID |-> ""]

\* ports.CheckResult
CheckResult(r, passed, corrected, reason) ==
    [Reading |-> r, Passed |-> passed, Corrected |-> corrected, Reason |-> reason]

\* ------------------------------------------------------------------ rules
RangeRule(min, max, action) == [kind |-> "RANGE", Min |-> min, Max |-> max, Action |-> action]
MonotonicRule(action) == [kind |-> "MONOTONIC", Min |-> 0, Max |-> 0, Action |-> action]
JumpRule(max) == [kind |-> "JUMP", Min |-> 0, Max |-> max, Action |-> "REJECT"]
StagnationRule(min) == [kind |-> "STAGNATION", Min |-> min, Max |-> 0, Action |-> "REJECT"]

\* Variant of RangeCheck whose CORRECT action always clamps to Min.
RangeCheckClampToMin(r, ctx, curr) ==
    IF curr.val >= r.Min /\ curr.val <= r.Max
    THEN CheckResult(curr, TRUE, FALSE, "")
    ELSE IF r.Action = "CORRECT"
         THEN CheckResult([curr EXCEPT !.val = r.Min], TRUE, TRUE, "value corrected to min")
         ELSE CheckResult(curr, FALSE, FALSE, "value out of range")

\* rules.RangeRule.Check
RangeCheck(r, ctx, curr) ==
    IF curr.val >= r.Min /\ curr.val <= r.Max
    THEN CheckResult(curr, TRUE, FALSE, "")
    ELSE IF r.Action = "CORRECT"
         THEN IF curr.val < r.Min
              THEN CheckResult([curr EXCEPT !.val = r.Min], TRUE, TRUE, "value corrected to min")
              ELSE CheckResult([curr EXCEPT !.val = r.Max], TRUE, TRUE, "value corrected to max")
         ELSE CheckResult(curr, FALSE, FALSE, "value out of range")

\* rules.MonotonicRule.Check (developer guide 03, section 3)
MonotonicCheck(r, ctx, curr) ==
    IF ctx.Previous = Nil
    THEN CheckResult(curr, TRUE, FALSE, "")
    ELSE IF curr.val < ctx.Previous[1].val /\ r.Action = "REJECT"
         THEN CheckResult(curr, FALSE, FALSE, "value regression detected")
         ELSE IF curr.val < ctx.Previous[1].val /\ r.Action = "CORRECT"
              THEN CheckResult([curr EXCEPT !.val = ctx.Previous[1].val], TRUE, TRUE,
                               "value corrected")
              ELSE CheckResult(curr, TRUE, FALSE, "")

\* JumpRule.Check; the (bool, error) pair is carried as Passed and Reason.
JumpCheck(r, ctx, curr) ==
    IF ctx.Previous = Nil
    THEN CheckResult(curr, TRUE, FALSE, "")
    ELSE IF curr.val - ctx.Previous[1].val > r.Max
         THEN CheckResult(curr, FALSE, FALSE, "abnormal jump")
         ELSE CheckResult(curr, TRUE, FALSE, "")

\* StagnationRule.Check; the (bool, error) pair is carried as Passed and Reason.
StagnationCheck(r, ctx, curr) ==
    IF ctx.Previous = Nil
    THEN CheckResult(curr, TRUE, FALSE, "")
    ELSE IF curr.val - ctx.Previous[1].val < r.Min /\ curr.val - ctx.Previous[1].val >= 0
         THEN CheckResult(curr, FALSE, FALSE, "value stagnation")
         ELSE CheckResult(curr, TRUE, FALSE, "")

\* ports.CleaningRule.Check: dynamic dispatch on the rule object.
Check(rule, ctx, curr) ==
    CASE rule.kind = "RANGE" -> RangeCheck(rule, ctx, curr)
      [] rule.kind = "MONOTONIC" -> MonotonicCheck(rule, ctx, curr)
      [] rule.kind = "JUMP" -> JumpCheck(rule, ctx, curr)
      [] rule.kind = "STAGNATION" -> StagnationCheck(rule, ctx, curr)

\* The rule chains a sanitizer is constructed with.
Chains ==
    { << >>,
      << MonotonicRule("REJECT"), JumpRule(0) >>,
      << MonotonicRule("CORRECT"), RangeRule(1, 1, "REJECT") >>,
      << RangeRule(0, 0, "CORRECT"), StagnationRule(1) >>,
      << RangeRule(1, 1, "CORRECT"), JumpRule(0) >>,
      << RangeRule(1, 1, "FLAG_ONLY"), MonotonicRule("FLAG_ONLY") >> }

\* Scenario S1: TestChainIntegration.
S1Chain == << MonotonicRule("REJECT"), JumpRule(100) >>
S1Batch ==
    << Reading(1, "D1", 0, 100), Reading(2, "D1", 1, 150), Reading(3, "D1", 2, 140),
       Reading(4, "D1", 3, 300), Reading(5, "D1", 4, 200) >>

\* ------------------------------------------------------------------ state
VARIABLES
    rules,        \* ChainSanitizer.rules
    readings,     \* Clean: the readings argument (sorted in place)
    clean,        \* Clean: var clean []domain.Reading
    quarantined,  \* Clean: var quarantined []domain.QuarantineReading
    prev,         \* Clean: var prev *domain.Reading
    pos,          \* Clean: number of readings the range loop has consumed
    pc,           \* Clean: "sort", "loop", "done"
    calls,        \* history of rule.Check invocations
    tolerance,    \* TimeAligner.Tolerance
    series,       \* FindSnapshot: the readings argument
    target,       \* FindSnapshot: the target argument
    snapshot,     \* FindSnapshot: the returned pointer (index into series, 0 = nil)
    alignPc       \* FindSnapshot: "call", "done"

VARIABLES
    interval,            \* CoreStandardizer.standardInterval
    concurrencyLimit,    \* CoreStandardizer.concurrencyLimit
    repo,                \* CoreStandardizer.repo is configured (not nil)
    ingest,              \* the IngestContext carried by ctx (Nil if none)
    ctxDone,             \* ctx.Done() is closed
    raw,                 \* ProcessAndStandardize: rawReadings
    stdPc,               \* ProcessAndStandardize: "clean", "dynclean", "spawn", "wait", "done"
    cleanReadings,       \* ProcessAndStandardize: cleanReadings
    quarantinedReadings, \* ProcessAndStandardize: quarantinedReadings
    deviceGroups,        \* ProcessAndStandardize: deviceGroups (DeviceID -> readings)
    unspawned,           \* keys of deviceGroups the range loop has not reached
    worker,              \* the shard goroutines: DeviceID -> [pc, devReadings, t, endTime, groupStandards]
    sem,                 \* number of tokens in the sem channel
    wg,                  \* the WaitGroup counter
    errChan,             \* contents of errChan
    standards,           \* ProcessAndStandardize: standards
    saved,               \* history of repo.SaveBatch calls
    ret                  \* the returned (standards, error); err = <<>> is nil

VARIABLES
    sample,              \* standardizeOne: the Reading argument
    scaled,              \* standardizeOne: the returned StandardReading (Nil before the call)
    quarantineRepo,      \* CoreStandardizer.quarantineRepo is configured (not nil)
    flushPc,             \* the flush goroutine: 0 = not started, k = about to save qs[k]
    flushQs,             \* the flush goroutine: its argument qs
    flushed,             \* history of quarantineRepo.Save calls: [record, ok]
    ruleRepo,            \* CoreStandardizer.ruleRepo is configured (not nil)
    typeOf,              \* DeviceInfo.Type of each device
    typeGroups,          \* cleanWithDynamicRules: typeGroups (DeviceType -> readings)
    dynUnspawned,        \* keys of typeGroups the range loop has not reached
    dynWorker,           \* the per-type goroutines: DeviceType -> [pc, domainRules, cleanedRows, rejectedRows]
    dynWg,               \* cleanWithDynamicRules: the WaitGroup counter
    dynErrChan,          \* cleanWithDynamicRules: contents of errChan
    dynResult,           \* cleanWithDynamicRules: result
    dynQuarantined       \* cleanWithDynamicRules: quarantined

VARIABLES
    store,               \* StandardReadingRepository: (DeviceID, Timestamp) -> stored record
    clock,               \* StandardReadingRepository: the value NOW() returned last
    saveLog,             \* history of repo.Save calls: [reading, strategy, stored]
    pending,             \* the caller: the invocations of ProcessAndStandardize still to make
    runs,                \* the caller: what the finished invocations returned
    getPc,               \* GetStandardReading: "call", "done"
    getArg,              \* GetStandardReading: [deviceID, timestamp]
    getRet,              \* GetStandardReading: the returned (reading, error)
    findCalls,           \* history of repo.FindExact calls
    checkRule,           \* RangeRule.Check: the receiver
    checkArg,            \* RangeRule.Check: the reading argument
    checkOut             \* RangeRule.Check: the returned CheckResults (first and repeated call)

VARIABLES
    format,              \* the ingestor in use: "json" or "csv"
    input,               \* IngestStream: the records of the stream
    inPos,               \* IngestStream: number of records read from the stream
    buffer,              \* IngestStream: var buffer []domain.Reading
    ingestResult,        \* IngestStream: *domain.IngestionResult
    delivered,           \* history of downstream calls: [batch, ok]
    ingestPc,            \* IngestStream: "start", "loop", "done"
    ingestRet            \* IngestStream: the returned (result, error)

VARIABLES
    unifier,             \* the MetricUnifier: [Factor]
    unifyArg,            \* the value the round trip starts from
    unifyMid,            \* what the first conversion returned
    unifyBack            \* what the conversion back returned

cleanVars == << rules, readings, clean, quarantined, prev, pos, pc, calls >>
alignVars == << tolerance, series, target, snapshot, alignPc >>
stdVars == << interval, concurrencyLimit, repo, ingest, ctxDone, raw, stdPc,
              cleanReadings, quarantinedReadings, deviceGroups, unspawned, worker,
              sem, wg, errChan, standards, saved, ret >>
scaleVars == << sample, scaled >>
flushVars == << quarantineRepo, flushPc, flushQs, flushed >>
dynVars == << ruleRepo, typeOf, typeGroups, dynUnspawned, dynWorker, dynWg,
              dynErrChan, dynResult, dynQuarantined >>
repoVars == << store, clock, saveLog >>
invokeVars == << pending, runs >>
getVars == << getPc, getArg, getRet, findCalls >>
checkVars == << checkRule, checkArg, checkOut >>
ingestVars == << format, input, inPos, buffer, ingestResult, delivered, ingestPc, ingestRet >>
unifyVars == << unifier, unifyArg, unifyMid, unifyBack >>
vars == << cleanVars, alignVars, stdVars, scaleVars, flushVars, dynVars,
           repoVars, invokeVars, getVars, checkVars, ingestVars, unifyVars >>

\* The sanitizer and the aligner at rest (not part of the run under study).
CleanIdle ==
    /\ rules = << >> /\ readings = << >> /\ clean = << >> /\ quarantined = << >>
    /\ prev = << >> /\ pos = 0 /\ pc = "idle" /\ calls = << >>

AlignIdle ==
    /\ tolerance = 0 /\ series = << >> /\ target = 0 /\ snapshot = 0
    /\ alignPc = "idle"

StdIdle ==
    /\ interval = 0 /\ concurrencyLimit = 0 /\ repo = FALSE /\ ingest = << >>
    /\ ctxDone = FALSE /\ raw = << >> /\ stdPc = "idle"
    /\ cleanReadings = << >> /\ quarantinedReadings = << >>
    /\ deviceGroups = << >> /\ unspawned = {} /\ worker = << >>
    /\ sem = 0 /\ wg = 0 /\ errChan = << >> /\ standards = << >>
    /\ saved = << >> /\ ret = << >>

ScaleIdle == sample = << >> /\ scaled = << >>

FlushIdle ==
    /\ quarantineRepo = FALSE /\ flushPc = 0 /\ flushQs = << >> /\ flushed = << >>

RepoIdle == store = << >> /\ clock = 0 /\ saveLog = << >>

InvokeIdle == pending = << >> /\ runs = << >>

GetIdle == getPc = "idle" /\ getArg = << >> /\ getRet = << >> /\ findCalls = << >>

CheckIdle == checkRule = << >> /\ checkArg = << >> /\ checkOut = << >>

UnifyIdle ==
    unifier = << >> /\ unifyArg = << >> /\ unifyMid = << >> /\ unifyBack = << >>

IngestIdle ==
    /\ format = "" /\ input = << >> /\ inPos = 0 /\ buffer = << >>
    /\ ingestResult = << >> /\ delivered = << >> /\ ingestPc = "idle" /\ ingestRet = << >>

DynIdle ==
    /\ ruleRepo = FALSE /\ typeOf = << >> /\ typeGroups = << >>
    /\ dynUnspawned = {} /\ dynWorker = << >> /\ dynWg = 0
    /\ dynErrChan = << >> /\ dynResult = << >> /\ dynQuarantined = << >>

\* --------------------------------------------------- ChainSanitizer.Clean
\* Variant of RunChain without the break: the rules after a failing rule are
\* still invoked.
RECURSIVE RunChainNoBreak(_, _, _, _, _)
RunChainNoBreak(rs, k, cleanCtx, curr, acc) ==
    IF k > Len(rs)
    THEN acc
    ELSE LET result == Check(rs[k], cleanCtx, acc.tempReading)
             call == [rd |-> curr.id, rule |-> k, Previous |-> cleanCtx.Previous,
                      arg |-> acc.tempReading, result |-> result]
         IN IF ~result.Passed
            THEN RunChainNoBreak(rs, k + 1, cleanCtx, curr,
                                 [acc EXCEPT !.passed = FALSE,
                                             !.failReason = result.Reason,
                                             !.calls = Append(@, call)])
            ELSE RunChainNoBreak(rs, k + 1, cleanCtx, curr,
                                 [acc EXCEPT !.tempReading = result.Reading,
                                             !.calls = Append(@, call)])

\* One pass over s.rules for one reading: the inner for loop of Clean.
\* acc = [passed, failReason, tempReading, calls].
RECURSIVE RunChain(_, _, _, _, _)
RunChain(rs, k, cleanCtx, curr, acc) ==
    IF k > Len(rs)
    THEN acc
    ELSE LET result == Check(rs[k], cleanCtx, acc.tempReading)
             call == [rd |-> curr.id, rule |-> k, Previous |-> cleanCtx.Previous,
                      arg |-> acc.tempReading, result |-> result]
         IN IF ~result.Passed
            THEN [acc EXCEPT !.passed = FALSE, !.failReason = result.Reason,
                             !.calls = Append(@, call)]
            ELSE RunChain(rs, k + 1, cleanCtx, curr,
                          [acc EXCEPT !.tempReading = result.Reading,
                                      !.calls = Append(@, call)])

\* Variant of IsDuplicate that compares Timestamps only.
IsDuplicateAnyDevice(p, curr) ==
    p # Nil /\ p[1].ts = curr.ts

\* The built-in duplicate test of Clean.
IsDuplicate(p, curr) ==
    p # Nil /\ p[1].dev = curr.dev /\ p[1].ts = curr.ts

\* Variant of CleanStep that drops a rejected reading instead of
\* quarantining it.
CleanStepDropsRejected(rs, st, curr) ==
    IF IsDuplicate(st.prev, curr)
    THEN [st EXCEPT !.quarantined = Append(@, QuarantineReading(curr, "Duplicate timestamp"))]
    ELSE LET out == RunChain(rs, 1, [Previous |-> st.prev], curr,
                             [passed |-> TRUE, failReason |-> "",
                              tempReading |-> curr, calls |-> st.calls])
         IN IF out.passed
            THEN [st EXCEPT !.clean = Append(@, out.tempReading),
                            !.prev = Ptr(out.tempReading),
                            !.calls = out.calls]
            ELSE [st EXCEPT !.calls = out.calls]

\* Variant of CleanStep that appends the reading as it came in, not the
\* working copy the rules returned.
CleanStepKeepsOriginal(rs, st, curr) ==
    IF IsDuplicate(st.prev, curr)
    THEN [st EXCEPT !.quarantined = Append(@, QuarantineReading(curr, "Duplicate timestamp"))]
    ELSE LET out == RunChain(rs, 1, [Previous |-> st.prev], curr,
                             [passed |-> TRUE, failReason |-> "",
                              tempReading |-> curr, calls |-> st.calls])
         IN IF out.passed
            THEN [st EXCEPT !.clean = Append(@, curr),
                            !.prev = Ptr(curr),
                            !.calls = out.calls]
            ELSE [st EXCEPT !.quarantined = Append(@, QuarantineReading(curr, out.failReason)),
                            !.calls = out.calls]

\* Variant of CleanStep that moves prev to every reading the chain has seen,
\* rejected ones included.
CleanStepPrevOnReject(rs, st, curr) ==
    IF IsDuplicate(st.prev, curr)
    THEN [st EXCEPT !.quarantined = Append(@, QuarantineReading(curr, "Duplicate timestamp"))]
    ELSE LET out == RunChain(rs, 1, [Previous |-> st.prev], curr,
                             [passed |-> TRUE, failReason |-> "",
                              tempReading |-> curr, calls |-> st.calls])
         IN IF out.passed
            THEN [st EXCEPT !.clean = Append(@, out.tempReading),
                            !.prev = Ptr(out.tempReading),
                            !.calls = out.calls]
            ELSE [st EXCEPT !.quarantined = Append(@, QuarantineReading(curr, out.failReason)),
                            !.prev = Ptr(curr),
                            !.calls = out.calls]

\* Variant of CleanStep that quarantines the working copy the rules have
\* corrected, not the reading as it came in.
CleanStepQuarantinesCopy(rs, st, curr) ==
    IF IsDuplicate(st.prev, curr)
    THEN [st EXCEPT !.quarantined = Append(@, QuarantineReading(curr, "Duplicate timestamp"))]
    ELSE LET out == RunChain(rs, 1, [Previous |-> st.prev], curr,
                             [passed |-> TRUE, failReason |-> "",
                              tempReading |-> curr, calls |-> st.calls])
         IN IF out.passed
            THEN [st EXCEPT !.clean = Append(@, out.tempReading),
                            !.prev = Ptr(out.tempReading),
                            !.calls = out.calls]
            ELSE [st EXCEPT !.quarantined = Append(@, QuarantineReading(out.tempReading,
                                                                        out.failReason)),
                            !.calls = out.calls]

\* The body of the range loop of Clean for one reading curr.
\* st = [clean, quarantined, prev, calls].
CleanStep(rs, st, curr) ==
    IF IsDuplicate(st.prev, curr)
    THEN [st EXCEPT !.quarantined = Append(@, QuarantineReading(curr, "Duplicate timestamp"))]
    ELSE LET out == RunChain(rs, 1, [Previous |-> st.prev], curr,
                             [passed |-> TRUE, failReason |-> "",
                              tempReading |-> curr, calls |-> st.calls])
         IN IF out.passed
            THEN [st EXCEPT !.clean = Append(@, out.tempReading),
                            !.prev = Ptr(out.tempReading),
                            !.calls = out.calls]
            ELSE [st EXCEPT !.quarantined = Append(@, QuarantineReading(curr, out.failReason)),
                            !.calls = out.calls]

\* sort.Slice with less = Timestamp.Before: the result is a permutation of
\* the argument in non-decreasing Timestamp order; sort.Slice is not stable,
\* so any order of readings with equal Timestamps is possible.
IsSortedByTime(s) == \A a, b \in 1..Len(s) : a < b => s[a].ts <= s[b].ts

SortOutcomes(s) ==
    { [k \in 1..Len(s) |-> s[p[k]]] :
        p \in { q \in [1..Len(s) -> 1..Len(s)] :
                  /\ \A a, b \in 1..Len(s) : a # b => q[a] # q[b]
                  /\ \A a, b \in 1..Len(s) : a < b => s[q[a]].ts <= s[q[b]].ts } }

\* Batches of at most MaxBatch readings.
Batches ==
    UNION { { [k \in 1..n |-> Reading(k, f[k][1], f[k][2], f[k][3])] :
                f \in [1..n -> Devices \X Times \X Values] } : n \in 0..MaxBatch }

CleanInit ==
    /\ \/ rules \in Chains /\ readings \in Batches
       \/ rules = S1Chain /\ readings = S1Batch
    /\ clean = << >>
    /\ quarantined = << >>
    /\ prev = Nil
    /\ pos = 0
    /\ pc = "sort"
    /\ calls = << >>
    /\ AlignIdle
    /\ StdIdle
    /\ ScaleIdle /\ FlushIdle /\ DynIdle
    /\ RepoIdle /\ InvokeIdle /\ IngestIdle /\ UnifyIdle /\ GetIdle /\ CheckIdle

\* Clean, lines "if len(readings) == 0" and sort.Slice.
CleanSort ==
    /\ pc = "sort"
    /\ IF Len(readings) = 0
       THEN pc' = "done" /\ UNCHANGED readings
       ELSE pc' = "loop" /\ readings' \in SortOutcomes(readings)
    /\ UNCHANGED << rules, clean, quarantined, prev, pos, calls, alignVars, ingestVars, unifyVars, repoVars, invokeVars, getVars, checkVars, stdVars, scaleVars, flushVars, dynVars >>

\* Clean, one iteration of "for _, curr := range readings".
CleanLoop ==
    /\ pc = "loop"
    /\ pos < Len(readings)
    /\ LET st == CleanStep(rules, [clean |-> clean, quarantined |-> quarantined,
                                   prev |-> prev, calls |-> calls], readings[pos + 1])
       IN /\ clean' = st.clean
          /\ quarantined' = st.quarantined
          /\ prev' = st.prev
          /\ calls' = st.calls
    /\ pos' = pos + 1
    /\ UNCHANGED << rules, readings, pc, alignVars, ingestVars, unifyVars, repoVars, invokeVars, getVars, checkVars, stdVars, scaleVars, flushVars, dynVars >>

\* Clean, "return clean, quarantined".
CleanReturn ==
    /\ pc = "loop"
    /\ pos = Len(readings)
    /\ pc' = "done"
    /\ UNCHANGED << rules, readings, clean, quarantined, prev, pos, calls, alignVars, ingestVars, unifyVars, repoVars, invokeVars, getVars, checkVars, stdVars, scaleVars, flushVars, dynVars >>

CleanNext == CleanSort \/ CleanLoop \/ CleanReturn

SpecClean == CleanInit /\ [][CleanNext]_vars

\* ------------------------------------------------- claims about Clean
IdsOf(seq) == { seq[k].id : k \in 1..Len(seq) }
TimesIn(id, seq) == Cardinality({ k \in 1..Len(seq) : seq[k].id = id })
QuarantinedReadings == [k \in 1..Len(quarantined) |-> quarantined[k].Reading]
CallsOn(id) == { k \in 1..Len(calls) : calls[k].rd = id }

\* C1: every reading the loop has consumed is either in clean exactly once
\* or in quarantined with a non-empty Reason, never both, never neither; when
\* Clean returns this covers every reading of the batch.
C1_CleanOrQuarantined ==
    /\ \A k \in 1..pos :
          LET id == readings[k].id
          IN \/ /\ TimesIn(id, clean) = 1
                /\ TimesIn(id, QuarantinedReadings) = 0
             \/ /\ TimesIn(id, clean) = 0
                /\ TimesIn(id, QuarantinedReadings) = 1
                /\ \A q \in 1..Len(quarantined) :
                      quarantined[q].Reading.id = id => quarantined[q].Reason # ""
    /\ Len(clean) + Len(quarantined) = pos
    /\ pc = "done" => pos = Len(readings)

C1_Witness ==
    /\ pc = "done"
    /\ Len(readings) = MaxBatch
    /\ \E a, b \in 1..Len(quarantined) :
          /\ quarantined[a].Reason = "Duplicate timestamp"
          /\ quarantined[b].Reason = "value out of range"
    /\ Len(clean) > 0

\* C2: the clean output is strictly ascending by Timestamp within each
\* device.
C2_StrictlyAscendingPerDevice ==
    \A a, b \in 1..Len(clean) :
        (a < b /\ clean[a].dev = clean[b].dev) => clean[a].ts < clean[b].ts

\* C3: a reading whose DeviceID and Timestamp equal those of the last
\* accepted reading is quarantined as "Duplicate timestamp" with Status
\* PENDING and no rule is invoked on it; any other reading (in particular one
\* that shares only the Timestamp with the last accepted reading) is handed
\* to the rule chain and is not quarantined as a duplicate.
C3_DuplicateOnlyForSameDevice ==
    [][ (pc = "loop" /\ pos' = pos + 1) =>
          LET curr == readings[pos + 1]
          IN IF prev # Nil /\ prev[1].dev = curr.dev /\ prev[1].ts = curr.ts
             THEN /\ quarantined' = Append(quarantined,
                        [Reading |-> curr, Status |-> "PENDING",
                         Reason |-> "Duplicate timestamp",
                         ID |-> "", RuleID |-> "", BatchID |-> ""])
                  /\ calls' = calls
                  /\ clean' = clean
             ELSE /\ \A q \in 1..Len(quarantined') :
                        quarantined'[q].Reading.id = curr.id
                            => quarantined'[q].Reason # "Duplicate timestamp"
                  /\ Len(rules) > 0 =>
                        /\ Len(calls') > Len(calls)
                        /\ calls'[Len(calls) + 1].rd = curr.id
                        /\ calls'[Len(calls) + 1].rule = 1
                        /\ calls'[Len(calls) + 1].arg = curr
                  /\ Len(rules) = 0 => clean' = Append(clean, curr)
      ]_vars

\* Both cases of C3 in one run: a same-device duplicate was quarantined and a
\* reading of another device with the same Timestamp went through the chain.
C3_Witness ==
    /\ pc = "done"
    /\ \E q \in 1..Len(quarantined) :
          /\ quarantined[q].Reason = "Duplicate timestamp"
          /\ CallsOn(quarantined[q].Reading.id) = {}
    /\ \E a, b \in 1..Len(clean) :
          /\ clean[a].dev # clean[b].dev
          /\ clean[a].ts = clean[b].ts
          /\ CallsOn(clean[a].id) # {}
          /\ CallsOn(clean[b].id) # {}

\* C4: when a rule returns Passed=false for a reading, no later rule is
\* invoked on that reading, the reading is in quarantined with that rule's
\* Reason and Status PENDING, and it is not in clean.
C4_RejectShortCircuits ==
    \A k \in 1..Len(calls) :
        ~calls[k].result.Passed =>
            /\ \A j \in CallsOn(calls[k].rd) : calls[j].rule <= calls[k].rule
            /\ \E q \in 1..Len(quarantined) :
                  /\ quarantined[q].Reading.id = calls[k].rd
                  /\ quarantined[q].Reason = calls[k].result.Reason
                  /\ quarantined[q].Status = "PENDING"
            /\ TimesIn(calls[k].rd, clean) = 0

\* The first rule of a chain of two rejected a reading.
C4_Witness ==
    /\ pc = "done"
    /\ Len(rules) = 2
    /\ \E k \in 1..Len(calls) : ~calls[k].result.Passed /\ calls[k].rule = 1

\* C5: when a rule passes a reading with a mutated value, the next rule is
\* invoked on the mutated value, the reading appended to clean is the value
\* the last rule returned, and a non-nil Previous handed to a rule is a value
\* as it stands in clean (the mutated one) at the end of clean at that time.
C5_CorrectionCarried ==
    /\ \A a, b \in 1..Len(calls) :
          (calls[a].rd = calls[b].rd /\ calls[b].rule = calls[a].rule + 1)
              => calls[b].arg = calls[a].result.Reading
    /\ \A c \in 1..Len(clean) :
          Len(rules) > 0 =>
              \E k \in CallsOn(clean[c].id) :
                  /\ calls[k].rule = Len(rules)
                  /\ calls[k].result.Passed
                  /\ calls[k].result.Reading = clean[c]
    /\ \A k \in 1..Len(calls) :
          calls[k].Previous # Nil =>
              \E c \in 1..Len(clean) :
                  /\ clean[c] = calls[k].Previous[1]
                  /\ \A d \in 1..Len(clean) :
                        (d > c /\ clean[d].id # calls[k].rd)
                            => \A j \in CallsOn(clean[d].id) : j > k

\* A rule corrected a reading, the rule after it was invoked on the corrected
\* value, the corrected value is in clean, and it was the Previous of the
\* next reading.
C5_Witness ==
    \E a, b, n \in 1..Len(calls) :
        /\ calls[a].result.Corrected
        /\ calls[a].result.Reading.val # calls[a].arg.val
        /\ calls[b].rd = calls[a].rd /\ calls[b].rule = calls[a].rule + 1
        /\ calls[b].result.Passed
        /\ \E c \in 1..Len(clean) : clean[c] = calls[b].result.Reading
        /\ calls[n].rd # calls[a].rd
        /\ calls[n].Previous = Ptr(calls[b].result.Reading)

\* C6: in every rule invocation on a reading of device d, Previous is nil or
\* a reading of the same device d.
C6_PreviousSameDevice ==
    \A k \in 1..Len(calls) :
        calls[k].Previous # Nil => calls[k].Previous[1].dev = calls[k].arg.dev

\* C7: prev is the last reading placed in clean (nil if none), a rejected or
\* duplicate reading is never the Previous of a rule invocation, and on
\* scenario S1 the clean values are 100, 150, 200.
C7_PreviousIsLastAccepted ==
    /\ prev = IF Len(clean) = 0 THEN Nil ELSE Ptr(clean[Len(clean)])
    /\ \A k \in 1..Len(calls) :
          calls[k].Previous # Nil
              => TimesIn(calls[k].Previous[1].id, QuarantinedReadings) = 0
    /\ (pc = "done" /\ rules = S1Chain /\ Len(readings) = Len(S1Batch))
          => [k \in 1..Len(clean) |-> clean[k].val] = << 100, 150, 200 >>

\* Scenario S1 ran to the end: two readings were rejected and the last one
\* was accepted against the last accepted value 150.
C7_Witness ==
    /\ pc = "done"
    /\ rules = S1Chain
    /\ Len(quarantined) = 2
    /\ \E k \in 1..Len(calls) :
          /\ calls[k].arg.val = 200
          /\ calls[k].Previous # Nil
          /\ calls[k].Previous[1].val = 150

\* ------------------------------------------------ TimeAligner.FindSnapshot
\* absDuration
absDuration(d) == IF d < 0 THEN -d ELSE d

\* sort.Search(n, f) with f(i) = !readings[i].Timestamp.Before(target): the
\* binary search for the first index (from 0) whose Timestamp is >= target.
RECURSIVE Search(_, _, _, _)
Search(rs, tgt, i, j) ==
    IF i < j
    THEN LET h == (i + j) \div 2
         IN IF rs[h + 1].ts < tgt
            THEN Search(rs, tgt, h + 1, j)
            ELSE Search(rs, tgt, i, h)
    ELSE i

\* One iteration of "for _, i := range candidates"; i counts from 0,
\* acc = [best, minDiff], best is an index from 1 (0 = nil).
Candidate(rs, tgt, tol, i, acc) ==
    IF i >= 0 /\ i < Len(rs)
    THEN LET diff == absDuration(rs[i + 1].ts - tgt)
         IN IF diff <= tol /\ diff < acc.minDiff
            THEN [best |-> i + 1, minDiff |-> diff]
            ELSE acc
    ELSE acc

\* Variant of FindSnapshot whose tolerance test is strict.
FindSnapshotStrict(rs, tgt, tol) ==
    IF Len(rs) = 0
    THEN 0
    ELSE LET idx == Search(rs, tgt, 0, Len(rs))
             strict(i, acc) ==
                 IF i >= 0 /\ i < Len(rs)
                 THEN LET diff == absDuration(rs[i + 1].ts - tgt)
                      IN IF diff < tol /\ diff < acc.minDiff
                         THEN [best |-> i + 1, minDiff |-> diff]
                         ELSE acc
                 ELSE acc
         IN strict(idx, strict(idx - 1, [best |-> 0, minDiff |-> tol + 1])).best

\* Variant of FindSnapshot that looks at the candidates in the other order.
FindSnapshotLaterFirst(rs, tgt, tol) ==
    IF Len(rs) = 0
    THEN 0
    ELSE LET idx == Search(rs, tgt, 0, Len(rs))
         IN Candidate(rs, tgt, tol, idx - 1,
                      Candidate(rs, tgt, tol, idx,
                                [best |-> 0, minDiff |-> tol + 1])).best

\* Variant of FindSnapshot that returns the nearer candidate however far
\* it is from the target.
FindSnapshotAnyDistance(rs, tgt, tol) ==
    IF Len(rs) = 0
    THEN 0
    ELSE LET idx == Search(rs, tgt, 0, Len(rs))
             far == absDuration(rs[1].ts - tgt) + absDuration(rs[Len(rs)].ts - tgt)
         IN Candidate(rs, tgt, far, idx,
                      Candidate(rs, tgt, far, idx - 1,
                                [best |-> 0, minDiff |-> far + 1])).best

\* TimeAligner.FindSnapshot: the index (from 1) of the returned reading in
\* rs, 0 for nil.
FindSnapshot(rs, tgt, tol) ==
    IF Len(rs) = 0
    THEN 0
    ELSE LET idx == Search(rs, tgt, 0, Len(rs))
         IN Candidate(rs, tgt, tol, idx,
                      Candidate(rs, tgt, tol, idx - 1,
                                [best |-> 0, minDiff |-> tol + 1])).best

\* The series handed to FindSnapshot: sorted ascending by Timestamp, equal
\* Timestamps allowed.
SortedSeries ==
    UNION { { [k \in 1..n |-> Reading(k, "D1", f[k], 0)] :
                f \in { g \in [1..n -> 0..MaxAlignTime] :
                          \A a, b \in 1..n : a < b => g[a] <= g[b] } } :
            n \in 0..MaxSeries }

AlignInit ==
    /\ tolerance \in 0..MaxTolerance
    /\ series \in SortedSeries
    /\ target \in 0..MaxAlignTime
    /\ snapshot = 0
    /\ alignPc = "call"
    /\ CleanIdle
    /\ StdIdle
    /\ ScaleIdle /\ FlushIdle /\ DynIdle
    /\ RepoIdle /\ InvokeIdle /\ IngestIdle /\ UnifyIdle /\ GetIdle /\ CheckIdle

\* A call of FindSnapshot(series, target).
AlignFind ==
    /\ alignPc = "call"
    /\ snapshot' = FindSnapshot(series, target, tolerance)
    /\ alignPc' = "done"
    /\ UNCHANGED << tolerance, series, target, cleanVars, ingestVars, unifyVars, repoVars, invokeVars, getVars, checkVars, stdVars, scaleVars, flushVars, dynVars >>

AlignNext == AlignFind

SpecAlign == AlignInit /\ [][AlignNext]_vars

\* ------------------------------------------- claims about FindSnapshot
Distance(k) == IF series[k].ts >= target THEN series[k].ts - target
               ELSE target - series[k].ts
WithinTolerance == { k \in 1..Len(series) : Distance(k) <= tolerance }

\* C8: FindSnapshot returns a reading of minimal distance to target over the
\* whole series when that minimum is <= Tolerance (a distance equal to
\* Tolerance is accepted), and nil exactly when no reading lies within
\* Tolerance of target.
C8_NearestWithinTolerance ==
    alignPc = "done" =>
        /\ snapshot = 0 <=> WithinTolerance = {}
        /\ snapshot # 0 =>
              /\ snapshot \in WithinTolerance
              /\ \A k \in 1..Len(series) : Distance(snapshot) <= Distance(k)

\* A reading exactly Tolerance away was returned although the series holds
\* further readings.
C8_Witness ==
    /\ alignPc = "done"
    /\ snapshot # 0
    /\ tolerance > 0
    /\ Distance(snapshot) = tolerance
    /\ Len(series) = MaxSeries
    /\ \E k \in 1..Len(series) : Distance(k) > tolerance

\* C9: when two readings are equally far from target and within Tolerance,
\* FindSnapshot returns the earlier one.
C9_EarlierOnTie ==
    (alignPc = "done" /\ snapshot # 0) =>
        \A k \in 1..Len(series) :
            Distance(k) = Distance(snapshot) => series[snapshot].ts <= series[k].ts

\* Scenario S5: one reading before and one after target, equally far.
C9_Witness ==
    /\ alignPc = "done"
    /\ snapshot # 0
    /\ \E k \in 1..Len(series) :
          /\ series[k].ts > target
          /\ series[snapshot].ts < target
          /\ Distance(k) = Distance(snapshot)

\* ---------------------------------------------------- CoreStandardizer
DefaultScaleFactor == 10000

\* Variant of GetPriority that ranks an unknown Strategy as REALTIME.
GetPriorityDefaultRealtime(strategy) ==
    CASE strategy = "CALIBRATION" -> 1000
      [] strategy = "BATCH_LATE" -> 50
      [] OTHER -> 100

\* Variant of GetPriority that ranks CALIBRATION below REALTIME.
GetPriorityCalibrationLow(strategy) ==
    CASE strategy = "CALIBRATION" -> 10
      [] strategy = "REALTIME" -> 100
      [] strategy = "BATCH_LATE" -> 50
      [] OTHER -> 0

\* IngestStrategy.GetPriority
GetPriority(strategy) ==
    CASE strategy = "CALIBRATION" -> 1000
      [] strategy = "REALTIME" -> 100
      [] strategy = "BATCH_LATE" -> 50
      [] OTHER -> 0

\* Variant of Int64 that converts the value without scaling it.
Int64Unscaled(num, den) == num

\* int64(x) for the float x = num / den: the fraction is cut off (towards 0).
Int64(num, den) ==
    IF num >= 0 THEN num \div den ELSE -((-num) \div den)

\* Variant of standardizeOne that ranks a call without IngestContext like an
\* unknown Strategy.
standardizeOneDefaultZero(ing, r) ==
    [DeviceID |-> r.dev,
     Timestamp |-> r.ts,
     ValueScaled |-> Int64(r.val, Resolution),
     ScaleFactor |-> DefaultScaleFactor,
     ValueDisplay |-> r.val,
     SourceType |-> "STANDARD",
     Quality |-> "VALID",
     Priority |-> IF ing = Nil THEN GetPriority("")
                  ELSE GetPriority(ing[1].Strategy)]

\* CoreStandardizer.standardizeOne (IngestedAt, the wall clock, is left out).
standardizeOne(ing, r) ==
    [DeviceID |-> r.dev,
     Timestamp |-> r.ts,
     ValueScaled |-> Int64(r.val, Resolution),
     ScaleFactor |-> DefaultScaleFactor,
     ValueDisplay |-> r.val,
     SourceType |-> "STANDARD",
     Quality |-> "VALID",
     Priority |-> IF ing = Nil THEN GetPriority("REALTIME")
                  ELSE GetPriority(ing[1].Strategy)]

\* time.Time.Truncate(d): round down to a multiple of d since the zero time.
Truncate(t, d) == IF d <= 0 THEN t ELSE t - (t % d)

\* Variant of GridStart that starts the grid at the first reading.
GridStartAtFirstReading(devReadings, d) == devReadings[1].ts

\* startTime of a shard.
GridStart(devReadings, d) == Truncate(devReadings[1].ts, d)

\* Variant of GridEnd that ends the grid at the floor of the last Timestamp.
GridEndFloor(devReadings, d) == Truncate(devReadings[Len(devReadings)].ts, d)

\* endTime of a shard: the last Timestamp aligned to the grid ceiling.
GridEnd(devReadings, d) ==
    LET endTime == devReadings[Len(devReadings)].ts
    IN IF endTime - Truncate(endTime, d) > 0
       THEN Truncate(endTime, d) + d
       ELSE Truncate(endTime, d)

\* Clean as one call: the loop body folded over a sort outcome.
RECURSIVE CleanFold(_, _, _, _)
CleanFold(rs, sorted, k, st) ==
    IF k > Len(sorted) THEN st
    ELSE CleanFold(rs, sorted, k + 1, CleanStep(rs, st, sorted[k]))

\* The (clean, quarantined) pairs Clean can return for a batch.
CleanOutcomes(rs, batch) ==
    IF Len(batch) = 0
    THEN { [clean |-> << >>, quarantined |-> << >>] }
    ELSE { LET st == CleanFold(rs, sorted, 1,
                               [clean |-> << >>, quarantined |-> << >>,
                                prev |-> Nil, calls |-> << >>])
           IN [clean |-> st.clean, quarantined |-> st.quarantined] :
           sorted \in SortOutcomes(batch) }

\* The readings of one device, in the order of seq.
RECURSIVE OfDevice(_, _)
OfDevice(seq, d) ==
    IF Len(seq) = 0 THEN << >>
    ELSE IF Head(seq).dev = d
         THEN << Head(seq) >> \o OfDevice(Tail(seq), d)
         ELSE OfDevice(Tail(seq), d)

\* deviceGroups: the clean readings sharded by DeviceInfo.ID.
GroupByDevice(seq) ==
    [d \in { seq[k].dev : k \in 1..Len(seq) } |-> OfDevice(seq, d)]

IdleWorker ==
    [pc |-> "none", devReadings |-> << >>, t |-> 0, endTime |-> 0,
     groupStandards |-> << >>]

StdChains == { << >>, << MonotonicRule("REJECT") >> }

StdBatches ==
    UNION { { [k \in 1..n |-> Reading(k, f[k][1], f[k][2], f[k][3])] :
                f \in [1..n -> Devices \X StdTimes \X Values] } : n \in 0..MaxRaw }

StdInit ==
    /\ rules \in StdChains
    /\ tolerance \in 0..MaxTolerance
    /\ interval \in Intervals
    /\ concurrencyLimit \in ConcurrencyLimits
    /\ repo \in BOOLEAN
    /\ ingest \in { Nil, Ptr([Strategy |-> "CALIBRATION"]) }
    /\ raw \in StdBatches
    /\ ctxDone = FALSE
    /\ stdPc = "clean"
    /\ cleanReadings = << >> /\ quarantinedReadings = << >>
    /\ deviceGroups = << >> /\ unspawned = {} /\ worker = << >>
    /\ sem = 0 /\ wg = 0 /\ errChan = << >> /\ standards = << >>
    /\ saved = << >> /\ ret = << >>
    /\ readings = << >> /\ clean = << >> /\ quarantined = << >>
    /\ prev = << >> /\ pos = 0 /\ pc = "idle" /\ calls = << >>
    /\ series = << >> /\ target = 0 /\ snapshot = 0 /\ alignPc = "idle"
    /\ ScaleIdle /\ FlushIdle /\ DynIdle
    /\ RepoIdle /\ InvokeIdle /\ IngestIdle /\ UnifyIdle /\ GetIdle /\ CheckIdle

\* The caller cancels ctx.
StdCancel ==
    /\ stdPc \in {"clean", "dynclean", "spawn", "wait"}
    /\ ~ctxDone
    /\ ctxDone' = TRUE
    /\ UNCHANGED << cleanVars, alignVars, ingestVars, unifyVars, repoVars, invokeVars, getVars, checkVars, scaleVars, flushVars, dynVars, interval, concurrencyLimit, repo, ingest,
                    raw, stdPc, cleanReadings, quarantinedReadings, deviceGroups,
                    unspawned, worker, sem, wg, errChan, standards, saved, ret >>

\* Variant of AppendAll that overwrites the accumulator, as an append that
\* is not serialized can do.
AppendAllLost(acc, xs) == xs

\* append(acc, xs...) under the mutex.
AppendAll(acc, xs) == acc \o xs

\* Variant of ReturnError that drops the error and returns the standards.
ReturnErrorSwallowed(st, err) == [standards |-> st, err |-> << >>]

\* Variant of ReturnError that hands the gathered standards back with the error.
ReturnErrorWithStandards(st, err) == [standards |-> st, err |-> err]

\* "return nil, err": the standards gathered so far are dropped.
ReturnError(st, err) == [standards |-> << >>, err |-> err]

\* ProcessAndStandardize from the cleaned readings to the spawn loop: the go
\* statement of the quarantine flush, the sharding by DeviceID, errChan, sem.
Shard(cl, qs) ==
    /\ cleanReadings' = cl
    /\ quarantinedReadings' = qs
    /\ IF Len(qs) > 0 /\ quarantineRepo
       THEN flushPc' = 1 /\ flushQs' = qs
       ELSE UNCHANGED << flushPc, flushQs >>
    /\ deviceGroups' = GroupByDevice(cl)
    /\ unspawned' = DOMAIN GroupByDevice(cl)
    /\ worker' = [d \in DOMAIN GroupByDevice(cl) |-> IdleWorker]
    /\ stdPc' = "spawn"

\* ProcessAndStandardize up to the spawn loop when no rule repository is
\* configured: s.sanitizer.Clean, then the flush and the sharding.
StdSanitize ==
    /\ stdPc = "clean"
    /\ ~ruleRepo
    /\ \E out \in CleanOutcomes(rules, raw) : Shard(out.clean, out.quarantined)
    /\ UNCHANGED << cleanVars, alignVars, ingestVars, unifyVars, repoVars, invokeVars, getVars, checkVars, scaleVars, dynVars, quarantineRepo, flushed,
                    interval, concurrencyLimit, repo, ingest,
                    ctxDone, raw, sem, wg, errChan, standards, saved, ret >>

\* Variant of CanAcquire for a channel without a capacity bound.
CanAcquireAlways(tokens, capacity) == TRUE

\* "sem <- struct{}{}" goes through while the channel buffer has room.
CanAcquire(tokens, capacity) == tokens < capacity

\* One iteration of "for _, readings := range deviceGroups": wg.Add(1), the
\* acquire of a token (blocks while sem is full) and the go statement.
StdSpawn(d) ==
    /\ stdPc = "spawn"
    /\ d \in unspawned
    /\ CanAcquire(sem, concurrencyLimit)
    /\ wg' = wg + 1
    /\ sem' = sem + 1
    /\ worker' = [worker EXCEPT ![d] = [IdleWorker EXCEPT !.pc = "start",
                                                          !.devReadings = deviceGroups[d]]]
    /\ unspawned' = unspawned \ {d}
    /\ UNCHANGED << cleanVars, alignVars, ingestVars, unifyVars, repoVars, invokeVars, getVars, checkVars, scaleVars, flushVars, dynVars, interval, concurrencyLimit, repo, ingest,
                    ctxDone, raw, stdPc, cleanReadings, quarantinedReadings,
                    deviceGroups, errChan, standards, saved, ret >>

\* The range loop is over.
StdSpawned ==
    /\ stdPc = "spawn"
    /\ unspawned = {}
    /\ stdPc' = "wait"
    /\ UNCHANGED << cleanVars, alignVars, ingestVars, unifyVars, repoVars, invokeVars, getVars, checkVars, scaleVars, flushVars, dynVars, interval, concurrencyLimit, repo, ingest,
                    ctxDone, raw, cleanReadings, quarantinedReadings, deviceGroups,
                    unspawned, worker, sem, wg, errChan, standards, saved, ret >>

\* A shard goroutine from its start to the first grid step: the empty test,
\* sort.Slice, startTime and endTime.
WorkerStart(d) ==
    /\ d \in DOMAIN worker
    /\ worker[d].pc = "start"
    /\ IF Len(worker[d].devReadings) = 0
       THEN /\ worker' = [worker EXCEPT ![d].pc = "done"]
            /\ sem' = sem - 1
            /\ wg' = wg - 1
       ELSE /\ \E sorted \in SortOutcomes(worker[d].devReadings) :
                  worker' = [worker EXCEPT ![d] =
                                [pc |-> "grid", devReadings |-> sorted,
                                 t |-> GridStart(sorted, interval),
                                 endTime |-> GridEnd(sorted, interval),
                                 groupStandards |-> << >>]]
            /\ UNCHANGED << sem, wg >>
    /\ UNCHANGED << cleanVars, alignVars, ingestVars, unifyVars, repoVars, invokeVars, getVars, checkVars, scaleVars, flushVars, dynVars, interval, concurrencyLimit, repo, ingest,
                    ctxDone, raw, stdPc, cleanReadings, quarantinedReadings,
                    deviceGroups, unspawned, errChan, standards, saved, ret >>

\* Variant of SnapTo that leaves the snapshot's own Timestamp.
SnapToReading(sr, t) == sr

\* "sr.Timestamp = t": the StandardReading is stamped with the grid time.
SnapTo(sr, t) == [sr EXCEPT !.Timestamp = t]

\* "errChan <- err" on make(chan error, capacity) goes through while the
\* channel buffer has room; nothing receives before wg.Wait has returned.
CanSend(ch, capacity) == Len(ch) < capacity

\* One iteration of the grid loop of a shard goroutine: the cancellation
\* check, FindSnapshot, standardizeOne; the deferred release and wg.Done run
\* when the goroutine returns.
WorkerGrid(d) ==
    /\ d \in DOMAIN worker
    /\ worker[d].pc = "grid"
    /\ worker[d].t <= worker[d].endTime
    /\ IF ctxDone
       THEN /\ CanSend(errChan, Cardinality(DOMAIN deviceGroups))
            /\ errChan' = Append(errChan, "context canceled")
            /\ worker' = [worker EXCEPT ![d].pc = "done"]
            /\ sem' = sem - 1
            /\ wg' = wg - 1
       ELSE /\ LET found == FindSnapshot(worker[d].devReadings, worker[d].t, tolerance)
                   sr == SnapTo(standardizeOne(ingest, worker[d].devReadings[found]),
                                worker[d].t)
               IN worker' = [worker EXCEPT
                      ![d].groupStandards = IF found # 0 THEN Append(@, sr) ELSE @,
                      ![d].t = @ + interval]
            /\ UNCHANGED << errChan, sem, wg >>
    /\ UNCHANGED << cleanVars, alignVars, ingestVars, unifyVars, repoVars, invokeVars, getVars, checkVars, scaleVars, flushVars, dynVars, interval, concurrencyLimit, repo, ingest,
                    ctxDone, raw, stdPc, cleanReadings, quarantinedReadings,
                    deviceGroups, unspawned, standards, saved, ret >>

\* The grid loop of a shard goroutine is over: the append to standards under
\* mu, then the deferred release and wg.Done.
WorkerGather(d) ==
    /\ d \in DOMAIN worker
    /\ worker[d].pc = "grid"
    /\ worker[d].t > worker[d].endTime
    /\ standards' = AppendAll(standards, worker[d].groupStandards)
    /\ worker' = [worker EXCEPT ![d].pc = "done"]
    /\ sem' = sem - 1
    /\ wg' = wg - 1
    /\ UNCHANGED << cleanVars, alignVars, ingestVars, unifyVars, repoVars, invokeVars, getVars, checkVars, scaleVars, flushVars, dynVars, interval, concurrencyLimit, repo, ingest,
                    ctxDone, raw, stdPc, cleanReadings, quarantinedReadings,
                    deviceGroups, unspawned, errChan, saved, ret >>

\* ------------------------------------------- StandardReadingRepository
\* The conflict key of the reference table: ON CONFLICT (device_id, timestamp).
Key(r) == << r.DeviceID, r.Timestamp >>

\* The row the reference INSERT writes for a StandardReading at NOW() = now.
Row(r, now) ==
    [DeviceID |-> r.DeviceID,
     Timestamp |-> r.Timestamp,
     ValueScaled |-> r.ValueScaled,
     Priority |-> r.Priority,
     IngestedAt |-> now]

\* Variant of UpdateAllowed that lets only a strictly larger Priority update.
UpdateAllowedStrict(new, old) == new.Priority > old.Priority

\* Variant of UpdateAllowed without the guard: every save updates.
UpdateAllowedAlways(new, old) == TRUE

\* "WHERE EXCLUDED.priority >= standard_readings.priority"
UpdateAllowed(new, old) == new.Priority >= old.Priority

\* repo.Save: INSERT ... ON CONFLICT (device_id, timestamp) DO UPDATE SET ...
\* WHERE the guard holds; LAST_WRITE_WINS always overwrites.
Save(st, r, strategy, now) ==
    IF Key(r) \notin DOMAIN st
    THEN (Key(r) :> Row(r, now)) @@ st
    ELSE IF strategy = "LAST_WRITE_WINS" \/ UpdateAllowed(r, st[Key(r)])
         THEN [st EXCEPT ![Key(r)] = Row(r, now)]
         ELSE st

\* repo.SaveBatch: the readings are saved one after the other in one statement.
RECURSIVE SaveBatch(_, _, _, _)
SaveBatch(st, rs, strategy, now) ==
    IF rs = << >> THEN st
    ELSE SaveBatch(Save(st, Head(rs), strategy, now), Tail(rs), strategy, now)

\* Variant of ShouldSave that also saves an empty batch.
ShouldSaveEmpty(hasRepo, st) == hasRepo

\* "if s.repo != nil && len(standards) > 0"
ShouldSave(hasRepo, st) == hasRepo /\ Len(st) > 0

\* wg.Wait() returns; the errors are collected and joined, the standards are
\* saved (repo.SaveBatch may fail) and ProcessAndStandardize returns.
StdReturn ==
    /\ stdPc = "wait"
    /\ wg = 0
    /\ IF Len(errChan) > 0
       THEN /\ ret' = ReturnError(standards, errChan)
            /\ UNCHANGED << saved, store, clock >>
       ELSE IF ShouldSave(repo, standards)
            THEN \E ok \in BOOLEAN :
                    /\ saved' = Append(saved, [readings |-> standards,
                                               strategy |-> "HIGH_PRIORITY_WINS",
                                               ok |-> ok])
                    /\ ret' = IF ok THEN [standards |-> standards, err |-> << >>]
                              ELSE ReturnError(standards, << "failed to persist standards" >>)
                    /\ clock' = clock + 1
                    /\ store' = IF ok
                                THEN SaveBatch(store, standards, "HIGH_PRIORITY_WINS", clock')
                                ELSE store
            ELSE /\ ret' = [standards |-> standards, err |-> << >>]
                 /\ UNCHANGED << saved, store, clock >>
    /\ stdPc' = "done"
    /\ UNCHANGED << cleanVars, alignVars, ingestVars, unifyVars, saveLog, invokeVars, getVars, checkVars, scaleVars, flushVars, dynVars, interval,
                    concurrencyLimit, repo, ingest,
                    ctxDone, raw, cleanReadings, quarantinedReadings, deviceGroups,
                    unspawned, worker, sem, wg, errChan, standards >>

StdNext ==
    \/ StdCancel
    \/ StdSanitize
    \/ \E d \in Devices : StdSpawn(d)
    \/ StdSpawned
    \/ \E d \in Devices : WorkerStart(d)
    \/ \E d \in Devices : WorkerGrid(d)
    \/ \E d \in Devices : WorkerGather(d)
    \/ StdReturn

SpecStd == StdInit /\ [][StdNext]_vars

\* ------------------------------------------------- claims on the grid
Min(S) == CHOOSE x \in S : \A y \in S : x <= y

Max(S) == CHOOSE x \in S : \A y \in S : y <= x

\* The multiples of the interval that a run can meet.
GridPoints ==
    { m \in 0..(Max(StdTimes) + Max(Intervals)) : m % interval = 0 }

\* floor(x, interval) and ceil(x, interval), read off the grid.
Floor(x) ==
    CHOOSE m \in GridPoints : m <= x /\ \A n \in GridPoints : n <= x => n <= m

Ceil(x) ==
    CHOOSE m \in GridPoints : m >= x /\ \A n \in GridPoints : n >= x => m <= n

\* The Timestamps of the clean readings of device d.
CleanTimesOf(d) ==
    { cleanReadings[j].ts : j \in { i \in 1..Len(cleanReadings) : cleanReadings[i].dev = d } }

\* C10: every StandardReading that ProcessAndStandardize returns has a
\* Timestamp that is a multiple of the interval and lies between the floor of
\* the smallest and the ceiling of the largest Timestamp of the clean readings
\* of its device; the ceiling of a Timestamp on the grid is that Timestamp.
C10_OnGridWithinSpan ==
    stdPc = "done" =>
        \A k \in 1..Len(ret.standards) :
            LET sr == ret.standards[k]
                T == CleanTimesOf(sr.DeviceID)
            IN /\ T # {}
               /\ sr.Timestamp % interval = 0
               /\ Floor(Min(T)) <= sr.Timestamp
               /\ sr.Timestamp <= Ceil(Max(T))
               /\ (Max(T) % interval = 0 => sr.Timestamp <= Max(T))

\* A returned run of a device whose first and last clean Timestamps are both
\* off the grid, with a standard on the floor of the first and one on the
\* ceiling of the last.
C10_Witness ==
    /\ stdPc = "done"
    /\ Len(ret.err) = 0
    /\ \E d \in Devices :
          LET T == CleanTimesOf(d)
          IN /\ T # {}
             /\ Min(T) % interval # 0
             /\ Max(T) % interval # 0
             /\ \E k \in 1..Len(ret.standards) :
                   /\ ret.standards[k].DeviceID = d
                   /\ ret.standards[k].Timestamp = Floor(Min(T))
             /\ \E k \in 1..Len(ret.standards) :
                   /\ ret.standards[k].DeviceID = d
                   /\ ret.standards[k].Timestamp = Ceil(Max(T))

\* ---------------------------------------------- claims on the output

\* The clean readings of device d.
CleanOf(d) ==
    { cleanReadings[j] : j \in { i \in 1..Len(cleanReadings) : cleanReadings[i].dev = d } }

\* The grid of device d: the grid points from the floor of its first to the
\* ceiling of its last clean Timestamp.
GridOf(d) ==
    { t \in GridPoints : /\ Floor(Min(CleanTimesOf(d))) <= t
                         /\ t <= Ceil(Max(CleanTimesOf(d))) }

\* The clean readings of d within the tolerance of t, and the nearest of them.
Tolerated(d, t) == { r \in CleanOf(d) : absDuration(r.ts - t) <= tolerance }

Nearest(d, t) ==
    { r \in Tolerated(d, t) :
        \A q \in Tolerated(d, t) : absDuration(r.ts - t) <= absDuration(q.ts - t) }

\* The positions of the returned standards of device d at t.
Returned(d, t) ==
    { k \in 1..Len(ret.standards) : /\ ret.standards[k].DeviceID = d
                                    /\ ret.standards[k].Timestamp = t }

\* C11: in a call that returns without error, a grid point of a device has a
\* StandardReading exactly when a clean reading of the device lies within the
\* tolerance of it, there is one StandardReading for it, and its ValueDisplay
\* is the value of a nearest such reading.
C11_SlotIffToleratedNeighbour ==
    (stdPc = "done" /\ Len(ret.err) = 0) =>
        \A d \in Devices : CleanOf(d) # {} =>
            \A t \in GridOf(d) :
                /\ Returned(d, t) # {} <=> Tolerated(d, t) # {}
                /\ Cardinality(Returned(d, t)) <= 1
                /\ \A k \in Returned(d, t) :
                      ret.standards[k].ValueDisplay \in { r.val : r \in Nearest(d, t) }

\* A returned run where a device has a grid point with a standard taken from
\* the nearer of two readings of different values, and an empty grid point.
C11_Witness ==
    /\ stdPc = "done"
    /\ Len(ret.err) = 0
    /\ \E d \in Devices :
          /\ CleanOf(d) # {}
          /\ \E t \in GridOf(d) : Returned(d, t) = {}
          /\ \E t \in GridOf(d) :
                /\ Returned(d, t) # {}
                /\ \E r \in Tolerated(d, t) : r \notin Nearest(d, t)
                /\ \E r \in Tolerated(d, t), q \in Nearest(d, t) : r.val # q.val

\* --------------------------------------------------------- standardizeOne
\* Largest magnitude of a Value handed to standardizeOne, in Resolution steps.
MaxValue == 25

\* The Strategy of an IngestContext: the three named ones, the empty one and
\* one that is not part of the enumeration.
Strategies == {"CALIBRATION", "REALTIME", "BATCH_LATE", "", "MANUAL"}

\* What domain.FromContext(ctx) finds: nothing, or an IngestContext.
Ingests == { Nil } \cup { Ptr([Strategy |-> s]) : s \in Strategies }

ScaleInit ==
    /\ sample \in { Reading(1, "D1", 0, v) : v \in (-MaxValue)..MaxValue }
    /\ ingest \in Ingests
    /\ scaled = Nil
    /\ interval = 0 /\ concurrencyLimit = 0 /\ repo = FALSE
    /\ ctxDone = FALSE /\ raw = << >> /\ stdPc = "idle"
    /\ cleanReadings = << >> /\ quarantinedReadings = << >>
    /\ deviceGroups = << >> /\ unspawned = {} /\ worker = << >>
    /\ sem = 0 /\ wg = 0 /\ errChan = << >> /\ standards = << >>
    /\ saved = << >> /\ ret = << >>
    /\ CleanIdle /\ AlignIdle /\ FlushIdle /\ DynIdle
    /\ RepoIdle /\ InvokeIdle /\ IngestIdle /\ UnifyIdle /\ GetIdle /\ CheckIdle

\* One call of standardizeOne.
Standardize ==
    /\ scaled = Nil
    /\ scaled' = Ptr(standardizeOne(ingest, sample))
    /\ UNCHANGED << cleanVars, alignVars, ingestVars, unifyVars, repoVars, invokeVars, getVars, checkVars, stdVars, sample, flushVars, dynVars >>

ScaleNext == Standardize

SpecScale == ScaleInit /\ [][ScaleNext]_vars

\* round_half_away_from_zero of the fraction num / den.
RoundHalfAway(num, den) ==
    IF num >= 0 THEN (2 * num + den) \div (2 * den)
    ELSE -((2 * (-num) + den) \div (2 * den))

\* C12: the ValueScaled of a StandardReading is ValueDisplay x ScaleFactor
\* rounded half away from zero, its ScaleFactor is 10000 and its ValueDisplay
\* is the value of the source reading.
C12_RoundsHalfAway ==
    scaled # Nil =>
        /\ scaled[1].ValueScaled = RoundHalfAway(scaled[1].ValueDisplay, Resolution)
        /\ scaled[1].ScaleFactor = 10000
        /\ scaled[1].ValueDisplay = sample.val

\* C13: ValueScaled differs from ValueDisplay x ScaleFactor by less than one,
\* whatever the sign of the value.
C13_WithinOneUnit ==
    scaled # Nil =>
        absDuration(scaled[1].ValueScaled * Resolution - scaled[1].ValueDisplay) < Resolution

\* A negative value whose ValueScaled is more than half a unit away from
\* ValueDisplay x ScaleFactor.
C13_Witness ==
    /\ scaled # Nil
    /\ sample.val < 0
    /\ 2 * absDuration(scaled[1].ValueScaled * Resolution - sample.val) > Resolution

\* ------------------------------------------- runs under an IngestContext
\* ProcessAndStandardize at its entry: nothing cleaned, spawned or returned.
StdEntry ==
    /\ ctxDone = FALSE
    /\ stdPc = "clean"
    /\ cleanReadings = << >> /\ quarantinedReadings = << >>
    /\ deviceGroups = << >> /\ unspawned = {} /\ worker = << >>
    /\ sem = 0 /\ wg = 0 /\ errChan = << >> /\ standards = << >>
    /\ saved = << >> /\ ret = << >>
    /\ readings = << >> /\ clean = << >> /\ quarantined = << >>
    /\ prev = << >> /\ pos = 0 /\ pc = "idle" /\ calls = << >>
    /\ series = << >> /\ target = 0 /\ snapshot = 0 /\ alignPc = "idle"
    /\ ScaleIdle
    /\ RepoIdle /\ InvokeIdle /\ IngestIdle /\ UnifyIdle /\ GetIdle /\ CheckIdle
    /\ flushPc = 0 /\ flushQs = << >> /\ flushed = << >>
    /\ typeOf = << >> /\ typeGroups = << >> /\ dynUnspawned = {}
    /\ dynWorker = << >> /\ dynWg = 0 /\ dynErrChan = << >>
    /\ dynResult = << >> /\ dynQuarantined = << >>

\* A standardizer without rules and repositories, called under any context.
PriorityInit ==
    /\ rules = << >>
    /\ tolerance = 1
    /\ interval \in Intervals
    /\ concurrencyLimit \in ConcurrencyLimits
    /\ repo = FALSE /\ quarantineRepo = FALSE /\ ruleRepo = FALSE
    /\ ingest \in Ingests
    /\ raw \in StdBatches
    /\ StdEntry

SpecPriority == PriorityInit /\ [][StdNext]_vars

\* The standards a call has produced so far: in the shards, gathered, returned.
Produced ==
    UNION { { worker[d].groupStandards[k] : k \in 1..Len(worker[d].groupStandards) } :
              d \in DOMAIN worker }
      \cup { standards[k] : k \in 1..Len(standards) }
      \cup (IF stdPc = "done" THEN { ret.standards[k] : k \in 1..Len(ret.standards) } ELSE {})

\* The Priority the context of the call stands for.
ContextPriority ==
    IF ingest = Nil THEN 100
    ELSE CASE ingest[1].Strategy = "CALIBRATION" -> 1000
           [] ingest[1].Strategy = "REALTIME" -> 100
           [] ingest[1].Strategy = "BATCH_LATE" -> 50
           [] OTHER -> 0

DeviceTypes == {"WATER", "ELEC"}

\* domain.CleaningRule, the stored configuration of a rule; Valid tells
\* that Parameters holds a float "min" and a float "max".
RuleConfig(type, action, valid, min, max) ==
    [Type |-> type, Action |-> action, Valid |-> valid, Min |-> min, Max |-> max]

\* What ListEnabledByDeviceType can return when it does not fail.
RuleLists ==
    { << >>,
      << RuleConfig("RANGE", "", TRUE, 0, 0) >>,
      << RuleConfig("RANGE", "CORRECT", TRUE, 1, 1), RuleConfig("RATE", "REJECT", TRUE, 0, 0) >>,
      << RuleConfig("RANGE", "REJECT", FALSE, 0, 0) >> }

\* Variant of CreateRule that replaces a rule it cannot build by a rule that
\* passes every reading.
CreateRuleLenient(dr) ==
    IF dr.Type # "RANGE" \/ ~dr.Valid THEN Ptr(RangeRule(0, 1, "REJECT"))
    ELSE Ptr(RangeRule(dr.Min, dr.Max, IF dr.Action = "" THEN "REJECT" ELSE dr.Action))

\* RuleFactory.CreateRule with the built-in builders: Nil is an error.
CreateRule(dr) ==
    IF dr.Type # "RANGE" THEN Nil
    ELSE IF ~dr.Valid THEN Nil
    ELSE Ptr(RangeRule(dr.Min, dr.Max, IF dr.Action = "" THEN "REJECT" ELSE dr.Action))

\* The conversion loop of a worker: Nil when a rule cannot be created.
ConvertRules(domainRules) ==
    IF \E k \in 1..Len(domainRules) : CreateRule(domainRules[k]) = Nil
    THEN Nil
    ELSE Ptr([k \in 1..Len(domainRules) |-> CreateRule(domainRules[k])[1]])

\* The readings of one device type, in the order of seq.
RECURSIVE OfType(_, _)
OfType(seq, ty) ==
    IF Len(seq) = 0 THEN << >>
    ELSE IF typeOf[Head(seq).dev] = ty
         THEN << Head(seq) >> \o OfType(Tail(seq), ty)
         ELSE OfType(Tail(seq), ty)

\* typeGroups: the raw readings grouped by DeviceInfo.Type.
GroupByType(seq) ==
    [ty \in { typeOf[seq[k].dev] : k \in 1..Len(seq) } |-> OfType(seq, ty)]

IdleDynWorker ==
    [pc |-> "none", curReadings |-> << >>, domainRules |-> << >>,
     cleanedRows |-> << >>, rejectedRows |-> << >>]

\* ProcessAndStandardize enters cleanWithDynamicRules: the grouping by type.
DynGroup ==
    /\ stdPc = "clean"
    /\ ruleRepo
    /\ typeGroups' = GroupByType(raw)
    /\ dynUnspawned' = DOMAIN GroupByType(raw)
    /\ dynWorker' = [ty \in DOMAIN GroupByType(raw) |-> IdleDynWorker]
    /\ stdPc' = "dynclean"
    /\ UNCHANGED << cleanVars, alignVars, ingestVars, unifyVars, repoVars, invokeVars, getVars, checkVars, scaleVars, flushVars, ruleRepo, typeOf,
                    dynWg, dynErrChan, dynResult, dynQuarantined,
                    interval, concurrencyLimit, repo, ingest, ctxDone, raw,
                    cleanReadings, quarantinedReadings, deviceGroups, unspawned,
                    worker, sem, wg, errChan, standards, saved, ret >>

\* One iteration of "for dType, grp := range typeGroups": wg.Add(1) and go.
DynSpawn(ty) ==
    /\ stdPc = "dynclean"
    /\ ty \in dynUnspawned
    /\ dynWg' = dynWg + 1
    /\ dynWorker' = [dynWorker EXCEPT ![ty] = [IdleDynWorker EXCEPT
                                                  !.pc = "load",
                                                  !.curReadings = typeGroups[ty]]]
    /\ dynUnspawned' = dynUnspawned \ {ty}
    /\ UNCHANGED << cleanVars, alignVars, ingestVars, unifyVars, repoVars, invokeVars, getVars, checkVars, scaleVars, flushVars, stdVars, ruleRepo,
                    typeOf, typeGroups, dynErrChan, dynResult, dynQuarantined >>

\* A worker loads its rules: ListEnabledByDeviceType fails or returns a list.
DynLoad(ty) ==
    /\ ty \in DOMAIN dynWorker
    /\ dynWorker[ty].pc = "load"
    /\ \/ /\ dynErrChan' = Append(dynErrChan, "load rules failed")
          /\ dynWorker' = [dynWorker EXCEPT ![ty].pc = "done"]
          /\ dynWg' = dynWg - 1
       \/ /\ \E rl \in RuleLists :
                dynWorker' = [dynWorker EXCEPT ![ty].pc = "sanitize",
                                               ![ty].domainRules = rl]
          /\ UNCHANGED << dynErrChan, dynWg >>
    /\ UNCHANGED << cleanVars, alignVars, ingestVars, unifyVars, repoVars, invokeVars, getVars, checkVars, scaleVars, flushVars, stdVars, ruleRepo,
                    typeOf, typeGroups, dynUnspawned, dynResult, dynQuarantined >>

\* A worker converts its rules, cleans its group with a sanitizer of its own
\* and appends the outcome to result and quarantined under mu.
DynSanitize(ty) ==
    /\ ty \in DOMAIN dynWorker
    /\ dynWorker[ty].pc = "sanitize"
    /\ IF ConvertRules(dynWorker[ty].domainRules) = Nil
       THEN /\ dynErrChan' = Append(dynErrChan, "convert rule failed")
            /\ dynWorker' = [dynWorker EXCEPT ![ty].pc = "done"]
            /\ UNCHANGED << dynResult, dynQuarantined >>
       ELSE /\ \E out \in CleanOutcomes(ConvertRules(dynWorker[ty].domainRules)[1],
                                        dynWorker[ty].curReadings) :
                  /\ dynResult' = AppendAll(dynResult, out.clean)
                  /\ dynQuarantined' = AppendAll(dynQuarantined, out.quarantined)
                  /\ dynWorker' = [dynWorker EXCEPT ![ty].pc = "done",
                                                    ![ty].cleanedRows = out.clean,
                                                    ![ty].rejectedRows = out.quarantined]
            /\ UNCHANGED dynErrChan
    /\ dynWg' = dynWg - 1
    /\ UNCHANGED << cleanVars, alignVars, ingestVars, unifyVars, repoVars, invokeVars, getVars, checkVars, scaleVars, flushVars, stdVars, ruleRepo,
                    typeOf, typeGroups, dynUnspawned >>

\* Variant of HasError that never sees an error, so that the call goes on
\* with what the other groups have cleaned.
HasErrorNever(ch) == FALSE

\* "if len(errChan) > 0" in cleanWithDynamicRules
HasError(ch) == Len(ch) > 0

\* The range loop is over and wg.Wait() returns: cleanWithDynamicRules
\* returns the first error, which ends ProcessAndStandardize, or the merged
\* outcome, on which ProcessAndStandardize goes on.
DynJoin ==
    /\ stdPc = "dynclean"
    /\ dynUnspawned = {}
    /\ dynWg = 0
    /\ IF HasError(dynErrChan)
       THEN /\ ret' = ReturnError(standards, << "dynamic cleaning failed", Head(dynErrChan) >>)
            /\ stdPc' = "done"
            /\ UNCHANGED << cleanReadings, quarantinedReadings, deviceGroups,
                            unspawned, worker, flushPc, flushQs >>
       ELSE /\ Shard(dynResult, dynQuarantined)
            /\ UNCHANGED ret
    /\ UNCHANGED << cleanVars, alignVars, ingestVars, unifyVars, repoVars, invokeVars, getVars, checkVars, scaleVars, dynVars, quarantineRepo, flushed,
                    interval, concurrencyLimit, repo, ingest, ctxDone, raw,
                    sem, wg, errChan, standards, saved >>

\* A standardizer with a rule repository.
DynInit ==
    /\ rules = << >>
    /\ tolerance = 1
    /\ interval \in Intervals
    /\ concurrencyLimit \in ConcurrencyLimits
    /\ repo \in BOOLEAN
    /\ quarantineRepo = FALSE
    /\ ruleRepo = TRUE
    /\ ingest = Nil
    /\ raw \in StdBatches
    /\ ctxDone = FALSE
    /\ stdPc = "clean"
    /\ cleanReadings = << >> /\ quarantinedReadings = << >>
    /\ deviceGroups = << >> /\ unspawned = {} /\ worker = << >>
    /\ sem = 0 /\ wg = 0 /\ errChan = << >> /\ standards = << >>
    /\ saved = << >> /\ ret = << >>
    /\ CleanIdle /\ ScaleIdle
    /\ RepoIdle /\ InvokeIdle /\ IngestIdle /\ UnifyIdle /\ GetIdle /\ CheckIdle
    /\ series = << >> /\ target = 0 /\ snapshot = 0 /\ alignPc = "idle"
    /\ flushPc = 0 /\ flushQs = << >> /\ flushed = << >>
    /\ typeOf \in { f \in [Devices -> DeviceTypes] : f["D1"] = "WATER" }
    /\ typeGroups = << >> /\ dynUnspawned = {} /\ dynWorker = << >>
    /\ dynWg = 0 /\ dynErrChan = << >> /\ dynResult = << >> /\ dynQuarantined = << >>

DynNext ==
    \/ StdCancel
    \/ DynGroup
    \/ \E ty \in DeviceTypes : DynSpawn(ty)
    \/ \E ty \in DeviceTypes : DynLoad(ty)
    \/ \E ty \in DeviceTypes : DynSanitize(ty)
    \/ DynJoin
    \/ \E d \in Devices : StdSpawn(d)
    \/ StdSpawned
    \/ \E d \in Devices : WorkerStart(d)
    \/ \E d \in Devices : WorkerGrid(d)
    \/ \E d \in Devices : WorkerGather(d)
    \/ StdReturn

SpecDyn == DynInit /\ [][DynNext]_vars

\* --------------------------------------------- claims on the error paths

\* C15: ProcessAndStandardize never returns standards together with an
\* error: when dynamic cleaning fails, when a shard reports an error and when
\* SaveBatch fails, the returned standards are nil.
C15_NilStandardsOnError ==
    (stdPc = "done" /\ Len(ret.err) > 0) => ret.standards = << >>

\* A run whose SaveBatch failed after standards had been gathered.
C15_Witness ==
    /\ stdPc = "done"
    /\ Len(standards) > 0
    /\ Len(saved) > 0
    /\ ~saved[1].ok
    /\ Len(ret.err) > 0

\* The shard goroutines that left their grid loop on cancellation, and those
\* that finished it.
Cancelled ==
    { d \in DOMAIN worker : worker[d].pc = "done" /\ worker[d].t <= worker[d].endTime }

Completed ==
    { d \in DOMAIN worker : worker[d].pc = "done" /\ worker[d].t > worker[d].endTime }

\* C16: when a shard goroutine has observed the cancellation of ctx in its
\* grid loop, ProcessAndStandardize returns only after every shard goroutine
\* has finished, its error holds the cancellation error of every such
\* goroutine, SaveBatch is not called, and the goroutines that finished their
\* grid loop have gathered their standards.
C16_CancellationAggregated ==
    (stdPc = "done" /\ Cancelled # {}) =>
        /\ \A d \in DOMAIN worker : worker[d].pc = "done"
        /\ Len(ret.err) = Cardinality(Cancelled)
        /\ \A k \in 1..Len(ret.err) : ret.err[k] = "context canceled"
        /\ saved = << >>
        /\ \A d \in Completed :
              SelectSeq(standards, LAMBDA sr : sr.DeviceID = d) = worker[d].groupStandards

\* A returned run with a repository where one shard goroutine observed the
\* cancellation and another had finished its grid and gathered standards.
C16_Witness ==
    /\ stdPc = "done"
    /\ repo
    /\ Cancelled # {}
    /\ \E d \in Completed : Len(worker[d].groupStandards) > 0

\* ------------------------------------------- claims on the concurrency

\* The shard goroutines that have started and not yet completed.
Active == { d \in DOMAIN worker : worker[d].pc \in {"start", "grid"} }

\* C17: the shard goroutines that have started and not completed are never
\* more than concurrencyLimit, each of them holds one token of sem and no
\* token is held by anything else: a goroutine that completes, on
\* cancellation or at the end of its grid, has given its token back.
C17_BoundedByConcurrencyLimit ==
    /\ Cardinality(Active) <= concurrencyLimit
    /\ sem = Cardinality(Active)
    /\ (stdPc = "done" => sem = 0)

\* The spawn loop waits for a token: the limit is reached while a shard is
\* still to be spawned and a goroutine is in its grid loop.
C17_Witness ==
    /\ stdPc = "spawn"
    /\ unspawned # {}
    /\ sem = concurrencyLimit
    /\ Cancelled = {}
    /\ Active # {}
    /\ \E d \in Active : worker[d].pc = "grid"

\* The cleaned rows and the quarantined rows of one device type in the
\* merged outcome of cleanWithDynamicRules.
ResultOfType(ty) == SelectSeq(dynResult, LAMBDA r : typeOf[r.dev] = ty)

QuarantinedOfType(ty) == SelectSeq(dynQuarantined, LAMBDA q : typeOf[q.Reading.dev] = ty)

\* The merged outcome holds the rows of every finished per-type goroutine
\* once, and nothing else.
DynGatherComplete ==
    /\ \A ty \in DOMAIN dynWorker :
          /\ ResultOfType(ty) =
                (IF dynWorker[ty].pc = "done" THEN dynWorker[ty].cleanedRows ELSE << >>)
          /\ QuarantinedOfType(ty) =
                (IF dynWorker[ty].pc = "done" THEN dynWorker[ty].rejectedRows ELSE << >>)
    /\ \A k \in 1..Len(dynResult) : typeOf[dynResult[k].dev] \in DOMAIN dynWorker
    /\ \A k \in 1..Len(dynQuarantined) :
          typeOf[dynQuarantined[k].Reading.dev] \in DOMAIN dynWorker

\* The gathered standards hold the standards of every shard goroutine that
\* finished its grid once, and nothing else.
GatherComplete ==
    /\ \A d \in DOMAIN worker :
          SelectSeq(standards, LAMBDA sr : sr.DeviceID = d) =
             (IF d \in Completed THEN worker[d].groupStandards ELSE << >>)
    /\ \A k \in 1..Len(standards) : standards[k].DeviceID \in DOMAIN worker

\* C18: when ProcessAndStandardize returns, every shard goroutine and every
\* per-type cleaning goroutine it spawned has finished, and the gathered
\* outcomes hold the complete outcome of every goroutine, nothing lost and
\* nothing twice.
C18_StructuredConcurrency ==
    /\ DynGatherComplete
    /\ GatherComplete
    /\ stdPc \notin {"clean", "dynclean"} =>
          \A ty \in DOMAIN dynWorker : dynWorker[ty].pc = "done"
    /\ stdPc = "done" =>
          /\ \A d \in DOMAIN worker : worker[d].pc = "done"
          /\ dynWg = 0 /\ wg = 0
          /\ dynUnspawned = {} /\ unspawned = {}
          /\ Len(ret.err) = 0 => ret.standards = standards

\* A run that returned the standards of two shards cleaned by two per-type
\* goroutines.
C18_Witness ==
    /\ stdPc = "done"
    /\ Len(ret.err) = 0
    /\ Cardinality(DOMAIN dynWorker) = 2
    /\ \A ty \in DOMAIN dynWorker : Len(dynWorker[ty].cleanedRows) > 0
    /\ Cardinality(DOMAIN worker) = 2
    /\ \A d \in DOMAIN worker : Len(worker[d].groupStandards) > 0
    /\ Len(ret.standards) >= 2

\* ------------------------------------------------ the quarantine flush
\* Largest number of readings in a batch of the runs with a quarantine
\* repository.
MaxFlushRaw == 3

\* Variant of FlushCtxCancelled for a flush that runs under the caller's ctx.
FlushCtxInherited(callerDone) == callerDone

\* The flush runs under context.WithTimeout(context.Background(), 30s): the
\* cancellation of the caller's ctx does not reach it.
FlushCtxCancelled(callerDone) == FALSE

\* One iteration of the loop of the flush goroutine: quarantineRepo.Save
\* succeeds or fails (it fails under a cancelled context); a failure is
\* logged and the loop goes on.
FlushSave ==
    /\ flushPc >= 1
    /\ flushPc <= Len(flushQs)
    /\ \E ok \in BOOLEAN :
          /\ FlushCtxCancelled(ctxDone) => ~ok
          /\ flushed' = Append(flushed, [record |-> flushQs[flushPc],
                                         cancelled |-> FlushCtxCancelled(ctxDone),
                                         ok |-> ok])
    /\ flushPc' = flushPc + 1
    /\ UNCHANGED << cleanVars, alignVars, ingestVars, unifyVars, repoVars, invokeVars, getVars, checkVars, stdVars, scaleVars, dynVars,
                    quarantineRepo, flushQs >>

\* The batches of these runs: readings of one device.
FlushBatches ==
    UNION { { [k \in 1..n |-> Reading(k, "D1", f[k][1], f[k][2])] :
                f \in [1..n -> Times \X Values] } : n \in 0..MaxFlushRaw }

\* A standardizer with a quarantine repository.
FlushInit ==
    /\ rules \in StdChains
    /\ tolerance = 1
    /\ interval = 2
    /\ concurrencyLimit = 2
    /\ repo = FALSE /\ quarantineRepo = TRUE /\ ruleRepo = FALSE
    /\ ingest = Nil
    /\ raw \in FlushBatches
    /\ StdEntry

FlushNext == StdNext \/ FlushSave

SpecFlush == FlushInit /\ [][FlushNext]_vars

\* The records the flush goroutine has handed to Save so far.
FlushedRecords == [k \in 1..Len(flushed) |-> flushed[k].record]

\* C19: once the readings are cleaned, a standardizer with a quarantine
\* repository has handed every non-empty quarantined batch to the flush,
\* cancelled caller or not; the flush saves the records once each and in
\* order, goes on after a failed Save, never runs a Save under the caller's
\* cancellation, and no Save changes anything of the call itself.
C19_FlushDetached ==
    /\ [](/\ (stdPc \notin {"clean", "dynclean"} /\ quarantineRepo
                /\ Len(quarantinedReadings) > 0)
              => (flushPc >= 1 /\ flushQs = quarantinedReadings)
          /\ flushPc >= 1 => FlushedRecords = SubSeq(flushQs, 1, flushPc - 1)
          /\ flushPc = 0 => flushed = << >>
          /\ \A k \in 1..Len(flushed) : ~flushed[k].cancelled
          /\ (flushPc >= 1 /\ flushPc <= Len(flushQs)) => ENABLED FlushSave)
    /\ [][flushed' # flushed => UNCHANGED stdVars]_vars

\* A run that returned standards without error, whose caller cancelled, and
\* whose flush went through two records, the first Save failing and the
\* second succeeding.
C19_Witness ==
    /\ stdPc = "done"
    /\ ctxDone
    /\ Len(ret.err) = 0
    /\ Len(ret.standards) > 0
    /\ Len(flushQs) >= 2
    /\ flushPc = Len(flushQs) + 1
    /\ ~flushed[1].ok
    /\ flushed[2].ok

\* ------------------------------------------------ claims on SaveBatch

\* C20: SaveBatch is called at most once in a call, only when every shard
\* goroutine has finished and none reported an error, only with a repository
\* and with standards to save, with the strategy HIGH_PRIORITY_WINS and with
\* the gathered standards, which are the ones the call returns when SaveBatch
\* succeeds; when SaveBatch fails the call returns an error.
C20_SaveBatchOnceAfterGather ==
    /\ Len(saved) <= 1
    /\ Len(saved) = 1 =>
          /\ stdPc = "done"
          /\ \A d \in DOMAIN worker : worker[d].pc = "done"
          /\ unspawned = {}
          /\ errChan = << >>
          /\ repo
          /\ Len(saved[1].readings) > 0
          /\ saved[1].strategy = "HIGH_PRIORITY_WINS"
          /\ saved[1].readings = standards
          /\ saved[1].ok => (ret.err = << >> /\ ret.standards = saved[1].readings)
          /\ ~saved[1].ok => Len(ret.err) > 0

\* A run that saved the standards of two shards and returned them.
C20_Witness ==
    /\ Len(saved) = 1
    /\ saved[1].ok
    /\ Cardinality(Completed) = 2
    /\ Len(ret.standards) >= 2

\* --------------------------------------------- saves to the repository
MaxSaves == 3

UpsertStrategies == {"LAST_WRITE_WINS", "HIGH_PRIORITY_WINS"}

\* The StandardReadings offered to the repository: standardizeOne's results
\* for one device, two grid times, three values and three ingest strategies.
SavedReadings ==
    { standardizeOne(Ptr([Strategy |-> s]), Reading(0, "D1", t, v)) :
        s \in {"CALIBRATION", "REALTIME", "BATCH_LATE"}, t \in {0, 2},
        v \in {0, Resolution} }

RepoInit ==
    /\ store = << >> /\ clock = 0 /\ saveLog = << >>
    /\ CleanIdle /\ AlignIdle /\ StdIdle /\ ScaleIdle /\ FlushIdle /\ DynIdle
    /\ InvokeIdle /\ IngestIdle /\ UnifyIdle /\ GetIdle /\ CheckIdle

\* One call of repo.Save, executed at NOW() = clock'.
RepoSave(r, strategy) ==
    /\ Len(saveLog) < MaxSaves
    /\ clock' = clock + 1
    /\ store' = Save(store, r, strategy, clock')
    /\ saveLog' = Append(saveLog, [reading |-> r, strategy |-> strategy, at |-> clock'])
    /\ UNCHANGED << cleanVars, alignVars, ingestVars, unifyVars, stdVars, scaleVars, flushVars, dynVars,
                    invokeVars, getVars, checkVars >>

RepoNext == \E r \in SavedReadings, strategy \in UpsertStrategies : RepoSave(r, strategy)

SpecRepo == RepoInit /\ [][RepoNext]_vars

\* C21: a HIGH_PRIORITY_WINS save inserts when the key holds no record, leaves
\* the stored record unchanged when the incoming Priority is lower than the
\* stored one and replaces it when it is greater or equal; a LAST_WRITE_WINS
\* save always replaces.
C21_HighPriorityWinsDecision ==
    [][ saveLog' # saveLog =>
          LET c == saveLog'[Len(saveLog')]
              k == Key(c.reading)
              new == Row(c.reading, c.at)
          IN  /\ k \in DOMAIN store'
              /\ k \notin DOMAIN store => store'[k] = new
              /\ ( /\ k \in DOMAIN store
                   /\ c.strategy = "HIGH_PRIORITY_WINS"
                   /\ c.reading.Priority < store[k].Priority ) => store'[k] = store[k]
              /\ ( /\ k \in DOMAIN store
                   /\ c.strategy = "HIGH_PRIORITY_WINS"
                   /\ c.reading.Priority >= store[k].Priority ) => store'[k] = new
              /\ c.strategy = "LAST_WRITE_WINS" => store'[k] = new ]_vars

\* Three saves to one key: an insert, a HIGH_PRIORITY_WINS save of equal Priority
\* that replaced the record, and one of lower Priority that was ignored.
C21_Witness ==
    /\ Len(saveLog) = 3
    /\ \A i \in 1..3 : Key(saveLog[i].reading) = << "D1", 0 >>
    /\ saveLog[2].strategy = "HIGH_PRIORITY_WINS"
    /\ saveLog[2].reading.Priority = saveLog[1].reading.Priority
    /\ saveLog[2].reading.ValueScaled # saveLog[1].reading.ValueScaled
    /\ saveLog[3].strategy = "HIGH_PRIORITY_WINS"
    /\ saveLog[3].reading.Priority < saveLog[2].reading.Priority
    /\ store[<< "D1", 0 >>] = Row(saveLog[2].reading, 2)

\* The saves made to the key k, as indices of saveLog.
SavesTo(k) == { i \in 1..Len(saveLog) : Key(saveLog[i].reading) = k }

OnlyHighPriorityWins(k) ==
    \A i \in SavesTo(k) : saveLog[i].strategy = "HIGH_PRIORITY_WINS"

\* The save to k with the largest Priority and, among those, the last one.
Authoritative(k) ==
    CHOOSE i \in SavesTo(k) :
        \A j \in SavesTo(k) :
            \/ saveLog[j].reading.Priority < saveLog[i].reading.Priority
            \/ /\ saveLog[j].reading.Priority = saveLog[i].reading.Priority
               /\ j <= i

\* C22: after any sequence of HIGH_PRIORITY_WINS saves to one key the stored
\* record is the saved record of the largest Priority, the last saved one among
\* those of that Priority; a HIGH_PRIORITY_WINS save never lowers the stored
\* Priority of a key.
C22_LargestPriorityLatestWins ==
    /\ [](\A k \in DOMAIN store :
            OnlyHighPriorityWins(k) =>
                store[k] = Row(saveLog[Authoritative(k)].reading,
                               saveLog[Authoritative(k)].at))
    /\ [][ ( /\ saveLog' # saveLog
             /\ saveLog'[Len(saveLog')].strategy = "HIGH_PRIORITY_WINS" ) =>
               \A k \in DOMAIN store :
                   /\ k \in DOMAIN store'
                   /\ store'[k].Priority >= store[k].Priority ]_vars

\* Three HIGH_PRIORITY_WINS saves to one key with Priorities 1000, 100, 1000
\* and different values: the third record, the later of the two largest, is
\* the stored one.
C22_Witness ==
    /\ Len(saveLog) = 3
    /\ \A i \in 1..3 :
          /\ Key(saveLog[i].reading) = << "D1", 2 >>
          /\ saveLog[i].strategy = "HIGH_PRIORITY_WINS"
    /\ saveLog[1].reading.Priority = 1000
    /\ saveLog[2].reading.Priority = 100
    /\ saveLog[3].reading.Priority = 1000
    /\ saveLog[3].reading.ValueScaled # saveLog[1].reading.ValueScaled
    /\ store[<< "D1", 2 >>] = Row(saveLog[3].reading, 3)

\* ------------------------------- successive calls on one repository
MaxPersistRaw == 2

\* Batches of one device: up to MaxPersistRaw readings, ids by position.
PersistBatches ==
    UNION { { [i \in 1..n |-> Reading(i, "D1", ts[i], vs[i])] :
                ts \in [1..n -> {0, 1, 3}], vs \in [1..n -> {0, Resolution}] } :
            n \in 1..MaxPersistRaw }

\* The contexts the caller passes: a CALIBRATION or a REALTIME ingest.
PersistIngests ==
    { Ptr([Strategy |-> "CALIBRATION"]), Ptr([Strategy |-> "REALTIME"]) }

\* A standardizer with a repository and no rules, entered for the first of two
\* invocations; the second one waits in pending.
PersistInit ==
    /\ rules = << >>
    /\ tolerance = 1
    /\ interval = 2
    /\ concurrencyLimit = 2
    /\ repo = TRUE
    /\ quarantineRepo = FALSE
    /\ ruleRepo = FALSE
    /\ ingest \in PersistIngests
    /\ raw \in PersistBatches
    /\ pending \in { << [ingest |-> g, raw |-> b] >> : g \in PersistIngests, b \in PersistBatches }
    /\ runs = << >>
    /\ store = << >> /\ clock = 0 /\ saveLog = << >>
    /\ ctxDone = FALSE
    /\ stdPc = "clean"
    /\ cleanReadings = << >> /\ quarantinedReadings = << >>
    /\ deviceGroups = << >> /\ unspawned = {} /\ worker = << >>
    /\ sem = 0 /\ wg = 0 /\ errChan = << >> /\ standards = << >>
    /\ saved = << >> /\ ret = << >>
    /\ readings = << >> /\ clean = << >> /\ quarantined = << >>
    /\ prev = << >> /\ pos = 0 /\ pc = "idle" /\ calls = << >>
    /\ series = << >> /\ target = 0 /\ snapshot = 0 /\ alignPc = "idle"
    /\ ScaleIdle /\ GetIdle /\ IngestIdle /\ UnifyIdle /\ CheckIdle
    /\ flushPc = 0 /\ flushQs = << >> /\ flushed = << >>
    /\ typeOf = << >> /\ typeGroups = << >> /\ dynUnspawned = {}
    /\ dynWorker = << >> /\ dynWg = 0 /\ dynErrChan = << >>
    /\ dynResult = << >> /\ dynQuarantined = << >>

\* The caller, after a call has returned, calls ProcessAndStandardize again
\* with a fresh context and the next batch; the repository keeps its rows.
Reinvoke ==
    /\ stdPc = "done"
    /\ pending # << >>
    /\ runs' = Append(runs, [ingest |-> ingest, raw |-> raw, ret |-> ret])
    /\ ingest' = Head(pending).ingest
    /\ raw' = Head(pending).raw
    /\ pending' = Tail(pending)
    /\ ctxDone' = FALSE
    /\ stdPc' = "clean"
    /\ cleanReadings' = << >> /\ quarantinedReadings' = << >>
    /\ deviceGroups' = << >> /\ unspawned' = {} /\ worker' = << >>
    /\ sem' = 0 /\ wg' = 0 /\ errChan' = << >> /\ standards' = << >>
    /\ ret' = << >>
    /\ UNCHANGED << cleanVars, alignVars, ingestVars, unifyVars, scaleVars, flushVars, dynVars, repoVars,
                    getVars, checkVars, interval, concurrencyLimit, repo, saved >>

PersistNext == StdNext \/ Reinvoke

SpecPersist == PersistInit /\ [][PersistNext]_vars

\* Both invocations have returned and each persisted its batch.
BothPersisted ==
    /\ stdPc = "done" /\ pending = << >> /\ Len(runs) = 1
    /\ Len(saved) = 2 /\ saved[1].ok /\ saved[2].ok

KeysOf(rs) == { Key(rs[i]) : i \in DOMAIN rs }

Calibration == Ptr([Strategy |-> "CALIBRATION"])
Realtime == Ptr([Strategy |-> "REALTIME"])

\* The batch the CALIBRATION invocation handed to SaveBatch.
CalibrationBatch ==
    IF runs[1].ingest = Calibration THEN saved[1].readings ELSE saved[2].readings

\* C23: when a CALIBRATION batch and a REALTIME batch with the same
\* (DeviceID, Timestamp) keys are persisted by two invocations, the stored
\* values are those of the CALIBRATION batch, in either order of application.
C23_CalibrationSurvivesBothOrders ==
    ( /\ BothPersisted
      /\ { runs[1].ingest, ingest } = { Calibration, Realtime }
      /\ KeysOf(saved[1].readings) = KeysOf(saved[2].readings) ) =>
        \A i \in DOMAIN CalibrationBatch :
            LET r == CalibrationBatch[i]
            IN  /\ Key(r) \in DOMAIN store
                /\ store[Key(r)].ValueScaled = r.ValueScaled
                /\ store[Key(r)].Priority = r.Priority

\* The CALIBRATION batch was persisted first and the REALTIME batch, with the
\* same keys and another value, second: the later save was ignored.
C23_Witness ==
    /\ BothPersisted
    /\ runs[1].ingest = Calibration /\ ingest = Realtime
    /\ KeysOf(saved[1].readings) = KeysOf(saved[2].readings)
    /\ \E i \in DOMAIN saved[1].readings, j \in DOMAIN saved[2].readings :
          /\ Key(saved[1].readings[i]) = Key(saved[2].readings[j])
          /\ saved[1].readings[i].ValueScaled # saved[2].readings[j].ValueScaled
          /\ store[Key(saved[1].readings[i])].IngestedAt = 1

\* Both invocations were made with the same context and the same batch and
\* both returned without error.
SameInputTwice ==
    /\ stdPc = "done" /\ pending = << >> /\ Len(runs) = 1
    /\ runs[1].ingest = ingest /\ runs[1].raw = raw
    /\ runs[1].ret.err = << >> /\ ret.err = << >>

SetOf(seq) == { seq[i] : i \in DOMAIN seq }

\* The rows of a store without their IngestedAt.
Content(st) ==
    [k \in DOMAIN st |-> [ValueScaled |-> st[k].ValueScaled, Priority |-> st[k].Priority]]

Unbuildable(dr) == dr.Type # "RANGE" \/ ~dr.Valid

\* The device-type groups whose goroutine ended without cleaning: the rules
\* could not be loaded, or one of the loaded rules could not be instantiated.
LoadFailed(ty) ==
    /\ dynWorker[ty].pc = "done"
    /\ dynWorker[ty].domainRules = << >>
    /\ dynWorker[ty].cleanedRows = << >> /\ dynWorker[ty].rejectedRows = << >>

ConvertFailed(ty) ==
    /\ dynWorker[ty].pc = "done"
    /\ \E k \in DOMAIN dynWorker[ty].domainRules :
          Unbuildable(dynWorker[ty].domainRules[k])

\* C25: with a rule repository, when for some device-type group the rules cannot
\* be loaded or a rule cannot be instantiated, ProcessAndStandardize returns a
\* "dynamic cleaning failed" error and nil standards, starts no shard and
\* saves nothing, whatever the other groups cleaned.
C25_StrictRuleFailure ==
    ( /\ stdPc = "done"
      /\ \E ty \in DOMAIN dynWorker : LoadFailed(ty) \/ ConvertFailed(ty) ) =>
        /\ Len(ret.err) > 0
        /\ ret.err[1] = "dynamic cleaning failed"
        /\ ret.standards = << >>
        /\ worker = << >>
        /\ standards = << >>
        /\ saved = << >>

\* Two groups: the rules of one could not be instantiated while the other
\* group was cleaned and had appended its rows to result.
C25_Witness ==
    /\ stdPc = "done"
    /\ \E ty \in DOMAIN dynWorker : ConvertFailed(ty)
    /\ \E ty \in DOMAIN dynWorker : dynWorker[ty].cleanedRows # << >>
    /\ dynResult # << >>
    /\ Len(ret.err) > 0

\* ------------------------------------------------- GetStandardReading
GetKeys == { << d, t >> : d \in Devices, t \in {0, 2} }

\* The repository contents a query may meet: any subset of the keys, each
\* holding a CALIBRATION or a REALTIME row.
GetStores ==
    UNION { { [k \in ks |-> Row(standardizeOne(gs[k], Reading(0, k[1], k[2], 0)), 1)] :
                gs \in [ks -> PersistIngests] } :
            ks \in SUBSET GetKeys }

\* What repo.FindExact may return for a key: the stored row or nil without an
\* error, or an error of the repository.
FindExactOutcomes(st, deviceID, timestamp) ==
    { [reading |-> IF << deviceID, timestamp >> \in DOMAIN st
                   THEN Ptr(st[<< deviceID, timestamp >>]) ELSE Nil,
       err |-> << >>],
      [reading |-> Nil, err |-> << "find failed" >>] }

\* Variant of RepoUnset that never reports a missing repository.
RepoUnsetNever(hasRepo) == FALSE

\* "if s.repo == nil"
RepoUnset(hasRepo) == ~hasRepo

GetInit ==
    /\ repo \in BOOLEAN
    /\ store \in GetStores
    /\ clock = 1 /\ saveLog = << >>
    /\ getPc = "call"
    /\ getArg \in { [deviceID |-> k[1], timestamp |-> k[2]] : k \in GetKeys }
    /\ getRet = << >>
    /\ findCalls = << >>
    /\ interval = 0 /\ concurrencyLimit = 0 /\ ingest = << >>
    /\ ctxDone = FALSE /\ raw = << >> /\ stdPc = "idle"
    /\ cleanReadings = << >> /\ quarantinedReadings = << >>
    /\ deviceGroups = << >> /\ unspawned = {} /\ worker = << >>
    /\ sem = 0 /\ wg = 0 /\ errChan = << >> /\ standards = << >>
    /\ saved = << >> /\ ret = << >>
    /\ CleanIdle /\ AlignIdle /\ ScaleIdle /\ FlushIdle /\ DynIdle
    /\ InvokeIdle /\ IngestIdle /\ UnifyIdle /\ CheckIdle

\* GetStandardReading(ctx, deviceID, timestamp)
GetStandardReading ==
    /\ getPc = "call"
    /\ IF RepoUnset(repo)
       THEN /\ getRet' = [reading |-> Nil, err |-> << "repository not configured" >>]
            /\ UNCHANGED findCalls
       ELSE \E res \in FindExactOutcomes(store, getArg.deviceID, getArg.timestamp) :
               /\ findCalls' = Append(findCalls, [deviceID |-> getArg.deviceID,
                                                  timestamp |-> getArg.timestamp,
                                                  result |-> res])
               /\ getRet' = res
    /\ getPc' = "done"
    /\ UNCHANGED << cleanVars, alignVars, ingestVars, unifyVars, stdVars, scaleVars, flushVars, dynVars,
                    repoVars, invokeVars, checkVars, getArg >>

GetNext == GetStandardReading

SpecGet == GetInit /\ [][GetNext]_vars

\* C26: without a repository GetStandardReading returns a configuration error
\* and calls no repository method; with one it calls FindExact once, with its
\* own deviceID and timestamp, and returns exactly what FindExact returned.
C26_DelegatesToFindExact ==
    /\ getPc = "call" => findCalls = << >>
    /\ getPc = "done" =>
          IF ~repo
          THEN /\ getRet.reading = Nil
               /\ getRet.err = << "repository not configured" >>
               /\ findCalls = << >>
          ELSE /\ Len(findCalls) = 1
               /\ findCalls[1].deviceID = getArg.deviceID
               /\ findCalls[1].timestamp = getArg.timestamp
               /\ getRet = findCalls[1].result

\* A call with a repository that returned the row FindExact found.
C26_Witness ==
    /\ getPc = "done"
    /\ repo
    /\ Len(findCalls) = 1
    /\ getRet.err = << >>
    /\ << getArg.deviceID, getArg.timestamp >> \in DOMAIN store
    /\ getRet.reading = Ptr(store[<< getArg.deviceID, getArg.timestamp >>])

\* ------------------------------------- batches with tied clean readings
MaxTieRaw == 3

\* Batches of up to MaxTieRaw readings of two devices at the times 0 and 1.
TieBatches ==
    UNION { { [k \in 1..n |-> Reading(k, f[k][1], f[k][2], 0)] :
                f \in [1..n -> Devices \X Times] } : n \in 1..MaxTieRaw }

\* A standardizer without rules and repositories.
TieInit ==
    /\ rules = << >>
    /\ tolerance = 1
    /\ interval = 2
    /\ concurrencyLimit \in ConcurrencyLimits
    /\ repo = FALSE
    /\ quarantineRepo = FALSE
    /\ ruleRepo = FALSE
    /\ ingest = Nil
    /\ raw \in TieBatches
    /\ StdEntry

SpecTie == TieInit /\ [][StdNext]_vars

\* C27: in the output of a successful call the StandardReadings of one device
\* are contiguous and strictly ascending in Timestamp, so no two of them share
\* (DeviceID, Timestamp), also when clean held two readings of the device at
\* one timestamp.
C27_ContiguousAscendingRuns ==
    (stdPc = "done" /\ ret.err = << >>) =>
        \A i, j \in DOMAIN ret.standards :
            (i < j /\ ret.standards[i].DeviceID = ret.standards[j].DeviceID) =>
                /\ ret.standards[i].Timestamp < ret.standards[j].Timestamp
                /\ \A k \in i..j : ret.standards[k].DeviceID = ret.standards[i].DeviceID

\* A successful call whose clean stream held two readings of one device at
\* one timestamp and whose output holds two slots of that device.
C27_Witness ==
    /\ stdPc = "done" /\ ret.err = << >>
    /\ \E i, j \in DOMAIN cleanReadings :
          /\ i < j
          /\ cleanReadings[i].dev = cleanReadings[j].dev
          /\ cleanReadings[i].ts = cleanReadings[j].ts
          /\ \E m, n \in DOMAIN ret.standards :
                /\ m < n
                /\ ret.standards[m].DeviceID = cleanReadings[i].dev
                /\ ret.standards[n].DeviceID = cleanReadings[i].dev

\* ------------------------------------ sanitizers with a non-REJECT rule
\* The chains of a sanitizer with one RANGE rule whose action is not REJECT.
ActionChains ==
    { << RangeRule(0, 0, "CORRECT") >>, << RangeRule(0, 0, "FLAG_ONLY") >> }

ActionInit ==
    /\ rules \in ActionChains
    /\ tolerance = 1
    /\ interval = 2
    /\ concurrencyLimit = 2
    /\ repo = FALSE
    /\ quarantineRepo = FALSE
    /\ ruleRepo = FALSE
    /\ ingest = Nil
    /\ raw \in StdBatches
    /\ StdEntry

SpecAction == ActionInit /\ [][StdNext]_vars

\* A clean reading is a corrected one when its Value is not the Value its raw
\* reading came with.
WasCorrected(c) == \E k \in DOMAIN raw : raw[k].id = c.id /\ raw[k].val # c.val

\* The clean reading the slot sr of device d was derived from.
SourceOf(d, sr) ==
    worker[d].devReadings[FindSnapshot(worker[d].devReadings, sr.Timestamp, tolerance)]

\* C28: a StandardReading derived from a reading that a rule corrected is
\* marked CORRECTED, one derived from an uncorrected reading is marked VALID.
C28_QualityOfCorrected ==
    \A d \in DOMAIN worker :
        \A k \in DOMAIN worker[d].groupStandards :
            LET sr == worker[d].groupStandards[k]
            IN  sr.Quality = IF WasCorrected(SourceOf(d, sr)) THEN "CORRECTED" ELSE "VALID"

\* ----------------------------------------------------- RangeRule.Check
MaxBound == 2
MaxChecks == 2

RuleActions == {"REJECT", "CORRECT", "FLAG_ONLY"}

\* Any RangeRule with bounds in -MaxBound..MaxBound (Min > Max included) and
\* any reading with a value up to one beyond the bounds.
RangeInit ==
    /\ checkRule \in { RangeRule(lo, hi, a) :
                         lo \in (-MaxBound)..MaxBound, hi \in (-MaxBound)..MaxBound,
                         a \in RuleActions }
    /\ checkArg \in { Reading(1, "D1", 0, v) : v \in (-MaxBound - 1)..(MaxBound + 1) }
    /\ checkOut = << >>
    /\ CleanIdle /\ AlignIdle /\ StdIdle /\ ScaleIdle /\ FlushIdle /\ DynIdle
    /\ RepoIdle /\ InvokeIdle /\ IngestIdle /\ UnifyIdle /\ GetIdle

\* rule.Check(ctx, curr): first on the reading, then on the Reading of the
\* result before.
RangeRuleCheck ==
    /\ Len(checkOut) < MaxChecks
    /\ LET curr == IF checkOut = << >> THEN checkArg
                   ELSE checkOut[Len(checkOut)].Reading
       IN checkOut' = Append(checkOut, RangeCheck(checkRule, [Previous |-> Nil], curr))
    /\ UNCHANGED << cleanVars, alignVars, ingestVars, unifyVars, stdVars, scaleVars, flushVars, dynVars,
                    repoVars, invokeVars, getVars, checkRule, checkArg >>

RangeNext == RangeRuleCheck

SpecRange == RangeInit /\ [][RangeNext]_vars

InRange(v) == checkRule.Min <= v /\ v <= checkRule.Max

\* C29: for a RangeRule with Min <= Max a value inside [Min, Max] passes
\* unchanged with Corrected = false; a value outside fails with a non-empty
\* Reason under REJECT; under CORRECT it passes with Corrected = true, a
\* non-empty Reason and its Value clamped to the violated bound, so that the
\* result is inside [Min, Max] and checking it again leaves it unchanged.
C29_RangeRuleContract ==
    (Len(checkOut) >= 1 /\ checkRule.Min <= checkRule.Max) =>
        LET v == checkArg.val
            o == checkOut[1]
        IN  /\ InRange(v) =>
                  o.Passed /\ ~o.Corrected /\ o.Reading = checkArg
            /\ (~InRange(v) /\ checkRule.Action = "REJECT") =>
                  ~o.Passed /\ o.Reason # ""
            /\ (~InRange(v) /\ checkRule.Action = "CORRECT") =>
                  /\ o.Passed /\ o.Corrected /\ o.Reason # ""
                  /\ o.Reading = [checkArg EXCEPT !.val = IF v < checkRule.Min
                                                         THEN checkRule.Min
                                                         ELSE checkRule.Max]
                  /\ InRange(o.Reading.val)
            /\ (Len(checkOut) = 2 /\ checkRule.Action = "CORRECT") =>
                  /\ checkOut[2].Passed /\ ~checkOut[2].Corrected
                  /\ checkOut[2].Reading = o.Reading

\* A value above Max was clamped to Max by a CORRECT rule with Min < Max and
\* checked again.
C29_Witness ==
    /\ Len(checkOut) = 2
    /\ checkRule.Action = "CORRECT"
    /\ checkRule.Min < checkRule.Max
    /\ checkArg.val > checkRule.Max
    /\ checkOut[1].Corrected
    /\ checkOut[2].Reading.val = checkRule.Max

\* The sanitizer of the call has run on a non-empty batch.
Sanitized ==
    /\ Len(raw) > 0
    /\ Len(cleanReadings) + Len(quarantinedReadings) = Len(raw)

\* The raw reading k has (DeviceID, Timestamp) to itself in the batch.
NoDuplicateOf(k) ==
    \A j \in DOMAIN raw : j # k => (raw[j].dev # raw[k].dev \/ raw[j].ts # raw[k].ts)

\* C30: a rule with action FLAG_ONLY does not reject: a reading that violates
\* it stays in clean with its original value and its StandardReadings are VALID.
C30_FlagOnlyKeepsReading ==
    ( /\ Sanitized
      /\ Len(rules) > 0
      /\ \A i \in DOMAIN rules : rules[i].Action = "FLAG_ONLY" ) =>
        /\ \A k \in DOMAIN raw :
              NoDuplicateOf(k) => \E c \in DOMAIN cleanReadings : cleanReadings[c] = raw[k]
        /\ \A sr \in Produced : sr.Quality = "VALID"

\* ------------------------------------------------------------------
\* Universal ingestors: JsonUniversalIngestor (IngestStream, decodeArray,
\* mapToDomain) and CsvUniversalIngestor (IngestStream, parseRecord).
\* ------------------------------------------------------------------

\* const batchSize = 100 in both ingestors.
batchSize == 100

\* Longest stream of which every combination of records is explored.
MaxRecords == 2

\* A record of the stream as written by the sender.  timestamp is the text of
\* the field; value is "12.5" for a number, "abc" for a text that is no number
\* (in JSON: the string "abc") and "" for an absent field (in JSON: missing or
\* null, in CSV: an empty column).  wellFormed = FALSE is a record the reader
\* cannot tokenise at all (JSON syntax error, CSV quoting error).
DeviceIDTexts == { "D1", "" }
TimestampTexts == { "2023-01-01T10:00:00Z", "2023-01-01 10:00:00", "10 o'clock" }
ValueTexts == { "12.5", "abc", "" }

Payload(id, ts, v) ==
    [ wellFormed |-> TRUE, device_id |-> id, timestamp |-> ts, value |-> v ]

Malformed ==
    [ wellFormed |-> FALSE, device_id |-> "", timestamp |-> "", value |-> "" ]

Payloads ==
    { Payload(id, ts, v) : id \in DeviceIDTexts, ts \in TimestampTexts, v \in ValueTexts }
        \cup { Malformed }

ValidPayload == Payload("D1", "2023-01-01T10:00:00Z", "12.5")

\* time.Parse(layout, text) succeeds
timeParse(layout, text) ==
    \/ layout = "RFC3339" /\ text = "2023-01-01T10:00:00Z"
    \/ layout = "2006-01-02 15:04:05" /\ text = "2023-01-01 10:00:00"

\* The reading made of the record at position item of the stream.
IngestedReading(item, p) ==
    [ item |-> item, DeviceID |-> p.device_id, Timestamp |-> p.timestamp ]

\* decoder.Decode(&p) into rawPayload returns no error.  Value is a
\* json.Number: a JSON string that is not a number literal is refused by the
\* decoder itself, like a syntax error.
Decode(p) == p.wellFormed /\ p.value # "abc"

\* JsonUniversalIngestor.mapToDomain: Nil stands for the returned error.
mapToDomain(item, p) ==
    IF ~ timeParse("RFC3339", p.timestamp) /\ ~ timeParse("2006-01-02 15:04:05", p.timestamp)
    THEN Nil
    ELSE IF p.value = ""              \* json.Number("").Float64() fails
         THEN Nil
         ELSE Ptr(IngestedReading(item, p))

\* csv reader.Read() returns a record (no error).
Read(p) == p.wellFormed

\* CsvUniversalIngestor.parseRecord: Nil stands for the returned error.
parseRecord(item, p) ==
    IF p.device_id = ""
    THEN Nil
    ELSE IF ~ timeParse("RFC3339", p.timestamp) /\ ~ timeParse("2006-01-02 15:04:05", p.timestamp)
         THEN Nil
         ELSE IF p.value # "12.5"     \* strconv.ParseFloat fails
              THEN Nil
              ELSE Ptr(IngestedReading(item, p))

\* &domain.IngestionResult{}; Errors holds the item number of each message.
EmptyResult ==
    [ Total |-> 0, Success |-> 0, Failed |-> 0, Skipped |-> 0, Errors |-> << >> ]

\* result.Failed++; result.Errors = append(result.Errors, ...)
RecordFailure(res, item) ==
    [ res EXCEPT !.Failed = @ + 1, !.Errors = Append(@, item) ]

\* Streams: every sequence of at most MaxRecords records, and long streams of
\* valid records that fill one or two batches, with one record of the stream
\* possibly replaced.
ShortStreams ==
    UNION { [ 1..n -> Payloads ] : n \in 0..MaxRecords }

LongLengths == { batchSize, batchSize + 1, 2 * batchSize + 1 }

Replacements ==
    { Payload("D1", "10 o'clock", "12.5"), Payload("D1", "2023-01-01 10:00:00", "abc") }

LongStreams ==
    { [ i \in 1..n |-> ValidPayload ] : n \in LongLengths }
        \cup { [ i \in 1..n |-> IF i = at THEN bad ELSE ValidPayload ] :
                 n \in LongLengths, at \in { 1, batchSize }, bad \in Replacements }

\* shape: what the stream holds around the records.
\*   json: "empty" (EOF at once), "array" ([...]), "unclosed" (an array whose
\*         closing bracket is missing), "object" (one {...}), "other"
\*   csv:  "empty" (no header line), "missingColumn" (a header without a
\*         required column), "table" (a header and records)
Streams(fmt) ==
    IF fmt = "json"
    THEN { [ shape |-> "empty", recs |-> << >> ], [ shape |-> "other", recs |-> << >> ] }
            \cup { [ shape |-> "object", recs |-> << p >> ] : p \in Payloads }
            \cup { [ shape |-> s, recs |-> rs ] :
                     s \in { "array", "unclosed" }, rs \in ShortStreams \cup LongStreams }
    ELSE { [ shape |-> "empty", recs |-> << >> ], [ shape |-> "missingColumn", recs |-> << >> ] }
            \cup { [ shape |-> "table", recs |-> rs ] : rs \in ShortStreams \cup LongStreams }

IngestInit ==
    /\ format \in { "json", "csv" }
    /\ input \in Streams(format)
    /\ inPos = 0
    /\ buffer = << >>
    /\ ingestResult = EmptyResult
    /\ delivered = << >>
    /\ ingestPc = "start"
    /\ ingestRet = << >>
    /\ CleanIdle /\ AlignIdle /\ StdIdle /\ ScaleIdle /\ FlushIdle /\ DynIdle
    /\ RepoIdle /\ InvokeIdle /\ GetIdle /\ CheckIdle /\ UnifyIdle

\* return res, err
IngestReturn(res, err) ==
    /\ ingestPc' = "done"
    /\ ingestRet' = [ result |-> res, err |-> err ]

\* downstream(ctx, batch): the callback is the caller's; it may fail.
Downstream(batch, ok) ==
    delivered' = Append(delivered, [ batch |-> batch, ok |-> ok ])

IngestOthersUnchanged ==
    UNCHANGED << cleanVars, alignVars, stdVars, scaleVars, flushVars, dynVars,
                 repoVars, invokeVars, getVars, checkVars, unifyVars, format, input >>

\* JsonUniversalIngestor.IngestStream up to the call of decodeArray, and the
\* whole of the single-object case.
JsonStart ==
    /\ format = "json" /\ ingestPc = "start"
    /\ \/ /\ input.shape = "empty"
          /\ IngestReturn(Ptr(EmptyResult), "")
          /\ UNCHANGED << inPos, buffer, ingestResult, delivered >>
       \/ /\ input.shape \in { "array", "unclosed" }
          /\ ingestPc' = "loop"
          /\ UNCHANGED << inPos, buffer, ingestResult, delivered, ingestRet >>
       \/ /\ input.shape = "object"
          /\ LET p == input.recs[1]
                 counted == [ ingestResult EXCEPT !.Total = @ + 1 ]
                 reading == mapToDomain(1, p)
             IN IF ~ Decode(p)
                THEN /\ IngestReturn(Nil, "failed to decode single object")
                     /\ UNCHANGED << inPos, buffer, ingestResult, delivered >>
                ELSE IF reading = Nil
                THEN /\ ingestResult' = RecordFailure(counted, 1)
                     /\ IngestReturn(Ptr(ingestResult'), "")
                     /\ inPos' = 1
                     /\ UNCHANGED << buffer, delivered >>
                ELSE \E ok \in BOOLEAN :
                     /\ Downstream(<< reading[1] >>, ok)
                     /\ inPos' = 1
                     /\ ingestResult' = IF ok THEN [ counted EXCEPT !.Success = @ + 1 ]
                                        ELSE counted
                     /\ IF ok THEN IngestReturn(Ptr(ingestResult'), "")
                        ELSE IngestReturn(Nil, "downstream")
                     /\ UNCHANGED buffer
       \/ /\ input.shape = "other"
          /\ IngestReturn(Nil, "unexpected JSON format")
          /\ UNCHANGED << inPos, buffer, ingestResult, delivered >>
    /\ IngestOthersUnchanged

\* The tail of one loop turn in both ingestors: append to the buffer, count
\* the success, flush the buffer when it is full.
BufferAndFlush(counted, reading) ==
    LET full == Append(buffer, reading)
    IN /\ ingestResult' = [ counted EXCEPT !.Success = @ + 1 ]
       /\ inPos' = inPos + 1
       /\ IF Len(full) >= batchSize
          THEN \E ok \in BOOLEAN :
               /\ Downstream(full, ok)
               /\ IF ok
                  THEN buffer' = << >> /\ UNCHANGED << ingestPc, ingestRet >>
                  ELSE buffer' = full /\ IngestReturn(Ptr(ingestResult'), "downstream")
          ELSE /\ buffer' = full
               /\ UNCHANGED << delivered, ingestPc, ingestRet >>

\* decodeArray: one turn of 'for decoder.More()'.
JsonRecord ==
    /\ format = "json" /\ ingestPc = "loop"
    /\ inPos < Len(input.recs)
    /\ LET item == inPos + 1
           p == input.recs[item]
           counted == [ ingestResult EXCEPT !.Total = @ + 1 ]
           r == mapToDomain(item, p)
       IN IF ~ Decode(p)
          THEN /\ IngestReturn(Nil, "decode error inside array")
               /\ UNCHANGED << inPos, buffer, ingestResult, delivered >>
          ELSE IF r = Nil
          THEN /\ ingestResult' = RecordFailure(counted, item)
               /\ inPos' = item
               /\ UNCHANGED << buffer, delivered, ingestPc, ingestRet >>
          ELSE BufferAndFlush(counted, r[1])
    /\ IngestOthersUnchanged

\* The flush of the remaining buffer after the loop; done is what follows it.
FlushRemaining(done) ==
    IF Len(buffer) > 0
    THEN \E ok \in BOOLEAN :
         /\ Downstream(buffer, ok)
         /\ IF ok THEN done ELSE IngestReturn(Ptr(ingestResult), "downstream")
    ELSE done /\ UNCHANGED delivered

\* decodeArray after the loop: flush the rest, consume the closing bracket.
JsonFinish ==
    /\ format = "json" /\ ingestPc = "loop"
    /\ inPos = Len(input.recs)
    /\ FlushRemaining(IF input.shape = "unclosed"
                      THEN IngestReturn(Ptr(ingestResult), "closing token")
                      ELSE IngestReturn(Ptr(ingestResult), ""))
    /\ UNCHANGED << inPos, buffer, ingestResult >>
    /\ IngestOthersUnchanged

\* CsvUniversalIngestor.IngestStream: the header.
CsvStart ==
    /\ format = "csv" /\ ingestPc = "start"
    /\ \/ /\ input.shape = "empty"
          /\ IngestReturn(Ptr(ingestResult), "")
       \/ /\ input.shape = "missingColumn"
          /\ IngestReturn(Nil, "missing required csv header")
       \/ /\ input.shape = "table"
          /\ ingestPc' = "loop"
          /\ UNCHANGED ingestRet
    /\ UNCHANGED << inPos, buffer, ingestResult, delivered >>
    /\ IngestOthersUnchanged

\* CsvUniversalIngestor.IngestStream: one turn of the record loop.
CsvRecord ==
    /\ format = "csv" /\ ingestPc = "loop"
    /\ inPos < Len(input.recs)
    /\ LET item == inPos + 1
           p == input.recs[item]
           counted == [ ingestResult EXCEPT !.Total = @ + 1 ]
           reading == parseRecord(item, p)
       IN IF ~ Read(p) \/ reading = Nil
          THEN /\ ingestResult' = RecordFailure(counted, item)
               /\ inPos' = item
               /\ UNCHANGED << buffer, delivered, ingestPc, ingestRet >>
          ELSE BufferAndFlush(counted, reading[1])
    /\ IngestOthersUnchanged

\* CsvUniversalIngestor.IngestStream after io.EOF: flush the rest, return.
CsvFinish ==
    /\ format = "csv" /\ ingestPc = "loop"
    /\ inPos = Len(input.recs)
    /\ FlushRemaining(IngestReturn(Ptr(ingestResult), ""))
    /\ UNCHANGED << inPos, buffer, ingestResult >>
    /\ IngestOthersUnchanged

IngestNext ==
    \/ JsonStart
    \/ JsonRecord
    \/ JsonFinish
    \/ CsvStart
    \/ CsvRecord
    \/ CsvFinish

SpecIngest == IngestInit /\ [][IngestNext]_vars

\* The stream is an array or table (or one object) whose records are all
\* well formed, so that the only faults in it are per-record data errors:
\* an invalid timestamp, an invalid numeric value, an empty device_id.
DataErrorsOnly ==
    /\ input.shape \in { "array", "object", "table" }
    /\ \A i \in 1..Len(input.recs) : input.recs[i].wellFormed

NoDownstreamError == \A k \in 1..Len(delivered) : delivered[k].ok

Consistent(res) ==
    /\ res.Total = res.Success + res.Failed + res.Skipped
    /\ Len(res.Errors) = res.Failed

\* C31: per-record data errors (invalid timestamp, invalid numeric value,
\* empty device_id) never abort an ingestion: when the downstream accepts
\* every batch, the JSON and the CSV ingestor return without error after
\* having gone through all records; and every IngestionResult an ingestor
\* returns satisfies Total = Success + Failed + Skipped with one Errors entry
\* per failed record.
C31_DataErrorsNeverAbort ==
    ingestPc = "done" =>
        /\ ingestRet.result # Nil => Consistent(ingestRet.result[1])
        /\ DataErrorsOnly /\ NoDownstreamError =>
              /\ ingestRet.err = ""
              /\ ingestRet.result # Nil
              /\ ingestRet.result[1].Total = Len(input.recs)

\* ------------------------------------------------------------------
\* MetricUnifier (internal/core/domain/unifier.go)
\* ------------------------------------------------------------------

\* A float64 is the fraction num / den.  Input values are multiples of
\* 1 / Quarter; the float division of FromScaled is not exact, its result
\* lies within 1 / Precision of a scaled unit around the true quotient.
MaxFactor == 3
MaxUnifyValue == 8
Quarter == 4
Precision == 100

Float(num, den) == [ num |-> num, den |-> den ]

\* NewUnifier(factor)
NewUnifier(factor) == [ Factor |-> factor ]

\* Variant of ToScaled that cuts the fraction off: int64(val * factor).
ToScaledTruncating(u, val) == Int64(val.num * u.Factor, val.den)

\* MetricUnifier.ToScaled: int64(math.Round(val * float64(u.Factor)))
ToScaled(u, val) == RoundHalfAway(val.num * u.Factor, val.den)

\* MetricUnifier.FromScaled: float64(val) / float64(u.Factor); e is the
\* rounding of the division, in steps of 1 / Precision of a scaled unit.
FromScaled(u, val, e) == Float(val * Precision + e, u.Factor * Precision)

DivisionRoundings == { -1, 0, 1 }

UnifyInit ==
    /\ unifier \in { NewUnifier(f) : f \in 1..MaxFactor }
    /\ unifyArg \in { [ kind |-> "float", v |-> Float(a, Quarter), n |-> 0 ] :
                        a \in (-MaxUnifyValue)..MaxUnifyValue }
                    \cup { [ kind |-> "scaled", v |-> Float(0, 1), n |-> n ] :
                             n \in (-MaxUnifyValue)..MaxUnifyValue }
    /\ unifyMid = Nil
    /\ unifyBack = Nil
    /\ CleanIdle /\ AlignIdle /\ StdIdle /\ ScaleIdle /\ FlushIdle /\ DynIdle
    /\ RepoIdle /\ InvokeIdle /\ GetIdle /\ CheckIdle /\ IngestIdle

UnifyOthersUnchanged ==
    UNCHANGED << cleanVars, alignVars, stdVars, scaleVars, flushVars, dynVars,
                 repoVars, invokeVars, getVars, checkVars, ingestVars,
                 unifier, unifyArg >>

\* unifier.ToScaled(v): of the argument v, or of what FromScaled returned.
ToScaledCall ==
    /\ \/ /\ unifyArg.kind = "float" /\ unifyMid = Nil
          /\ unifyMid' = Ptr(ToScaled(unifier, unifyArg.v))
          /\ UNCHANGED unifyBack
       \/ /\ unifyArg.kind = "scaled" /\ unifyMid # Nil /\ unifyBack = Nil
          /\ unifyBack' = Ptr(ToScaled(unifier, unifyMid[1]))
          /\ UNCHANGED unifyMid
    /\ UnifyOthersUnchanged

\* unifier.FromScaled(n): of the argument, or of what ToScaled returned.
FromScaledCall ==
    /\ \E e \in DivisionRoundings :
       \/ /\ unifyArg.kind = "scaled" /\ unifyMid = Nil
          /\ unifyMid' = Ptr(FromScaled(unifier, unifyArg.n, e))
          /\ UNCHANGED unifyBack
       \/ /\ unifyArg.kind = "float" /\ unifyMid # Nil /\ unifyBack = Nil
          /\ unifyBack' = Ptr(FromScaled(unifier, unifyMid[1], e))
          /\ UNCHANGED unifyMid
    /\ UnifyOthersUnchanged

UnifyNext ==
    \/ ToScaledCall
    \/ FromScaledCall

SpecUnify == UnifyInit /\ [][UnifyNext]_vars

\* |a - b| for the fractions a and b, times both denominators
FloatDistance(a, b) ==
    IF a.num * b.den >= b.num * a.den
    THEN a.num * b.den - b.num * a.den
    ELSE b.num * a.den - a.num * b.den

\* C32: for a positive factor, FromScaled(ToScaled(v)) differs from v by
\* less than 1 / Factor, and ToScaled(FromScaled(n)) = n for a scaled
\* integer n.
C32_RoundTrip ==
    unifyBack # Nil =>
        IF unifyArg.kind = "float"
        THEN FloatDistance(unifyBack[1], unifyArg.v) * unifier.Factor
                 < unifyBack[1].den * unifyArg.v.den
        ELSE unifyBack[1] = unifyArg.n

\* A value halfway between two scaled integers went there and back, and a
\* scaled integer went through a division that was not exact.
C32_Witness ==
    /\ unifyBack # Nil
    /\ \/ /\ unifyArg.kind = "float"
          /\ (2 * unifyArg.v.num * unifier.Factor) % unifyArg.v.den = 0
          /\ (unifyArg.v.num * unifier.Factor) % unifyArg.v.den # 0
       \/ /\ unifyArg.kind = "scaled"
          /\ unifyMid[1].num < unifyArg.n * Precision
          /\ unifyArg.n > 0

DefaultConcurrencyLimit == 100

\* The limits a caller may pass to WithConcurrencyLimit.
LimitOptions == { -1, 0, 1, 2 }

\* Variant of WithConcurrencyLimit that takes every limit as it comes.
WithConcurrencyLimitUnchecked(current, limit) == limit

\* WithConcurrencyLimit(limit) applied to a standardizer whose limit is current.
WithConcurrencyLimit(current, limit) == IF limit > 0 THEN limit ELSE current

\* A standardizer without rules, built with WithConcurrencyLimit of any
\* limit, with or without a repository.
LiveInit ==
    /\ rules = << >>
    /\ tolerance = 1
    /\ interval \in Intervals
    /\ concurrencyLimit \in { WithConcurrencyLimit(DefaultConcurrencyLimit, l) :
                                l \in LimitOptions }
    /\ repo \in BOOLEAN /\ quarantineRepo = FALSE /\ ruleRepo = FALSE
    /\ ingest = Nil
    /\ raw \in StdBatches
    /\ StdEntry

\* The goroutine of the caller and every shard goroutine take their next
\* step whenever they can (the Go scheduler runs every runnable goroutine,
\* the mutex and the channels are handed on); the cancellation of the
\* context is the caller's and may come at any time or never.
LiveFairness ==
    /\ WF_vars(StdSanitize)
    /\ WF_vars(\E d \in Devices : StdSpawn(d))
    /\ WF_vars(StdSpawned)
    /\ \A d \in Devices : WF_vars(WorkerStart(d))
    /\ \A d \in Devices : WF_vars(WorkerGrid(d))
    /\ \A d \in Devices : WF_vars(WorkerGather(d))
    /\ WF_vars(StdReturn)

SpecLive == LiveInit /\ [][StdNext]_vars /\ LiveFairness

\* C34: ProcessAndStandardize always returns, for any number of device
\* shards (also more than concurrencyLimit), any limit passed to
\* WithConcurrencyLimit and any timing of cancellation: the limit in use is
\* at least 1, the error channel never holds more errors than there are
\* shards, and the call reaches its return.
C34_AlwaysReturns ==
    /\ [](concurrencyLimit >= 1 /\ Len(errChan) <= Cardinality(DOMAIN deviceGroups))
    /\ <>(stdPc = "done")

\* A call with more shards than tokens was cancelled, every shard sent its
\* error, and the call has returned.
C34_Witness ==
    /\ stdPc = "done"
    /\ Cardinality(DOMAIN deviceGroups) > concurrencyLimit
    /\ ctxDone
    /\ Len(errChan) = Cardinality(DOMAIN deviceGroups)

\* ------------------------------------- quarantine flush on both paths
\* The batches of these runs: up to MaxRaw readings of two devices.
QuarantineBatches ==
    UNION { { [k \in 1..n |-> Reading(k, f[k][1], f[k][2], f[k][3])] :
                f \in [1..n -> Devices \X Times \X Values] } : n \in 0..MaxRaw }

\* A standardizer with a repository and a quarantine repository, with a
\* static chain or with a rule repository.
QuarantineInit ==
    /\ ruleRepo \in BOOLEAN
    /\ rules \in (IF ruleRepo THEN { << >> } ELSE StdChains)
    /\ tolerance = 1
    /\ interval = 2
    /\ concurrencyLimit = 2
    /\ repo = TRUE
    /\ quarantineRepo = TRUE
    /\ ingest = Nil
    /\ raw \in QuarantineBatches
    /\ ctxDone = FALSE
    /\ stdPc = "clean"
    /\ cleanReadings = << >> /\ quarantinedReadings = << >>
    /\ deviceGroups = << >> /\ unspawned = {} /\ worker = << >>
    /\ sem = 0 /\ wg = 0 /\ errChan = << >> /\ standards = << >>
    /\ saved = << >> /\ ret = << >>
    /\ readings = << >> /\ clean = << >> /\ quarantined = << >>
    /\ prev = << >> /\ pos = 0 /\ pc = "idle" /\ calls = << >>
    /\ series = << >> /\ target = 0 /\ snapshot = 0 /\ alignPc = "idle"
    /\ ScaleIdle
    /\ RepoIdle /\ InvokeIdle /\ IngestIdle /\ UnifyIdle /\ GetIdle /\ CheckIdle
    /\ flushPc = 0 /\ flushQs = << >> /\ flushed = << >>
    /\ typeOf = [d \in Devices |-> IF d = "D1" THEN "WATER" ELSE "ELEC"]
    /\ typeGroups = << >> /\ dynUnspawned = {} /\ dynWorker = << >>
    /\ dynWg = 0 /\ dynErrChan = << >> /\ dynResult = << >> /\ dynQuarantined = << >>

QuarantineNext ==
    \/ StdSanitize
    \/ DynNext
    \/ FlushSave

\* Every goroutine that can take a step takes it in the end: the caller's,
\* the cleaning workers, the shards and the flush; the cancellation of the
\* context may come at any time or never.
QuarantineFairness ==
    /\ WF_vars(StdSanitize)
    /\ WF_vars(DynGroup)
    /\ \A ty \in DeviceTypes :
          WF_vars(DynSpawn(ty)) /\ WF_vars(DynLoad(ty)) /\ WF_vars(DynSanitize(ty))
    /\ WF_vars(DynJoin)
    /\ WF_vars(\E d \in Devices : StdSpawn(d))
    /\ WF_vars(StdSpawned)
    /\ \A d \in Devices :
          WF_vars(WorkerStart(d)) /\ WF_vars(WorkerGrid(d)) /\ WF_vars(WorkerGather(d))
    /\ WF_vars(StdReturn)
    /\ WF_vars(FlushSave)

SpecQuarantine == QuarantineInit /\ [][QuarantineNext]_vars /\ QuarantineFairness

\* Cleaning is over and left records to quarantine.
CleanedWithRejects ==
    /\ stdPc \in { "spawn", "wait", "done" }
    /\ Len(quarantinedReadings) > 0

\* Every record of the flush has been handed to QuarantineRepository.Save.
AllHandedToSave ==
    /\ flushQs = quarantinedReadings
    /\ FlushedRecords = flushQs

\* C35: the flush of the quarantined records is started before the shards
\* are processed and does not depend on how the call ends: once cleaning has
\* left quarantined records, the flush holds them before any shard goroutine
\* exists, and every one of them is handed to QuarantineRepository.Save in
\* the end, also when the call fails with a cancellation or a SaveBatch
\* error. When dynamic cleaning fails for a device-type group, no quarantine
\* record of the call is saved, whatever other groups have rejected, and
\* SaveBatch is not called.
C35_FlushIndependentOfOutcome ==
    /\ [](CleanedWithRejects => (flushPc >= 1 /\ flushQs = quarantinedReadings))
    /\ [](DOMAIN worker # {} /\ Len(quarantinedReadings) > 0 => flushPc >= 1)
    /\ (CleanedWithRejects ~> AllHandedToSave)
    /\ [](Len(dynErrChan) > 0 => (flushPc = 0 /\ flushed = << >> /\ saved = << >>))
    /\ (Len(dynErrChan) > 0 ~> (stdPc = "done" /\ Len(ret.err) > 0))

\* Either a call failed on SaveBatch and its flush has handed every
\* quarantined record to Save, or dynamic cleaning failed for one type while
\* the group of the other type had rejected a reading, and the call returned.
C35_Witness ==
    /\ stdPc = "done"
    /\ Len(ret.err) > 0
    /\ \/ /\ Len(saved) = 1 /\ ~saved[1].ok
          /\ Len(flushQs) > 0
          /\ flushPc = Len(flushQs) + 1
       \/ /\ Len(dynErrChan) > 0
          /\ Len(dynQuarantined) > 0
          /\ flushed = << >>

\* ------------------------------------------- snapshots in quarantine
\* b holds the readings of a, each as often as a does, in some order.
PermutationOf(a, b) ==
    /\ Len(a) = Len(b)
    /\ \A k \in 1..Len(a) :
          Cardinality({ j \in 1..Len(a) : a[j] = a[k] })
              = Cardinality({ j \in 1..Len(b) : b[j] = a[k] })

\* C36: a QuarantineReading produced by Clean holds the reading as it came
\* in, also when an earlier rule of the chain had corrected its value before
\* a later rule rejected it; and Clean never changes a reading of its
\* argument, it only reorders them.
C36_QuarantineHoldsOriginal ==
    /\ [](\A q \in 1..Len(quarantined) :
             \E k \in 1..pos : /\ readings[k] = quarantined[q].Reading
                               /\ readings[k].id = quarantined[q].Reading.id)
    /\ [][PermutationOf(readings, readings')]_vars

\* A reading was corrected by the first rule and rejected by the second: it
\* is in quarantine with the value it came with, which is not the value the
\* second rule saw.
C36_Witness ==
    /\ pc = "done"
    /\ \E a, b \in 1..Len(calls) :
          /\ calls[a].rd = calls[b].rd
          /\ calls[a].rule = 1 /\ calls[a].result.Passed /\ calls[a].result.Corrected
          /\ calls[b].rule = 2 /\ ~calls[b].result.Passed
          /\ \E q \in 1..Len(quarantined) :
                /\ quarantined[q].Reading.id = calls[b].rd
                /\ quarantined[q].Reading.val = calls[a].arg.val
                /\ quarantined[q].Reading.val # calls[b].arg.val

\* ----------------------------------------- the earlier linear-scan aligner
\* One iteration of "for i := range readings" of the linear-scan
\* FindSnapshot; i counts from 1, acc = [best, minDiff], best = 0 is nil.
LinearStep(rs, tgt, tol, i, acc) ==
    LET diff == absDuration(rs[i].ts - tgt)
    IN IF diff <= tol /\ (acc.best = 0 \/ diff < acc.minDiff)
       THEN [best |-> i, minDiff |-> diff]
       ELSE acc

RECURSIVE LinearScan(_, _, _, _, _)
LinearScan(rs, tgt, tol, i, acc) ==
    IF i > Len(rs) THEN acc
    ELSE LinearScan(rs, tgt, tol, i + 1, LinearStep(rs, tgt, tol, i, acc))

\* The linear-scan TimeAligner.FindSnapshot: the index (from 1) of the
\* returned reading in rs, 0 for nil.
FindSnapshotLinear(rs, tgt, tol) ==
    LinearScan(rs, tgt, tol, 1, [best |-> 0, minDiff |-> -1]).best

StrictlyAscending(rs) == \A a, b \in 1..Len(rs) : a < b => rs[a].ts < rs[b].ts

\* C37 (as stated): on every series sorted ascending by Timestamp, equal
\* Timestamps allowed, the binary-search FindSnapshot returns the very same
\* element as the linear-scan FindSnapshot with the same Tolerance.
C37_SameElementAsLinearScan ==
    alignPc = "done" => snapshot = FindSnapshotLinear(series, target, tolerance)

\* C37 (amended): on every such series the binary-search FindSnapshot
\* returns nil exactly when the linear scan does, and otherwise an element
\* with the same Timestamp as the linear scan's; it is the very same element
\* when the Timestamps are strictly ascending, and it can differ only for a
\* Timestamp before target that several readings share, of which the linear
\* scan returns the first and the binary search the last.
C37_SameTimestampAsLinearScan ==
    alignPc = "done" =>
        LET lin == FindSnapshotLinear(series, target, tolerance)
        IN /\ snapshot = 0 <=> lin = 0
           /\ snapshot # 0 =>
                 /\ series[snapshot].ts = series[lin].ts
                 /\ StrictlyAscending(series) => snapshot = lin
                 /\ snapshot # lin =>
                       /\ series[snapshot].ts < target
                       /\ lin < snapshot
                       /\ \A k \in 1..Len(series) :
                             series[k].ts = series[lin].ts => (lin <= k /\ k <= snapshot)

\* Two readings share a Timestamp before target and within Tolerance: the
\* binary search returned the last of them, the linear scan returns the first.
C37_Witness ==
    /\ alignPc = "done"
    /\ snapshot # 0
    /\ FindSnapshotLinear(series, target, tolerance) # snapshot
    /\ series[snapshot].ts < target

\* ---------------------------------------- sources of the StandardReadings
\* src maps the standards gs of a shard to readings of the shard rs such
\* that each standard carries the value of its reading and lies within the
\* tolerance of it.
IsSourceMap(src, gs, rs) ==
    \A k \in 1..Len(gs) :
        /\ rs[src[k]].val = gs[k].ValueDisplay
        /\ rs[src[k]].dev = gs[k].DeviceID
        /\ absDuration(rs[src[k]].ts - gs[k].Timestamp) <= tolerance

Injective(f) == \A a, b \in DOMAIN f : a # b => f[a] # f[b]

StandardsOfDevice(d) ==
    { k \in 1..Len(ret.standards) : ret.standards[k].DeviceID = d }

\* C38: the grid Timestamp of every StandardReading differs from the
\* Timestamp of the clean reading it was derived from by at most Tolerance;
\* and when 2 x Tolerance < interval every StandardReading of a shard has a
\* source of its own, so that a device never has more StandardReadings than
\* clean readings.
C38_WithinToleranceOfSource ==
    /\ \A d \in DOMAIN worker :
          worker[d].pc \in { "grid", "done" } =>
              LET rs == worker[d].devReadings
                  gs == worker[d].groupStandards
              IN /\ \E src \in [1..Len(gs) -> 1..Len(rs)] : IsSourceMap(src, gs, rs)
                 /\ 2 * tolerance < interval =>
                       /\ \E src \in [1..Len(gs) -> 1..Len(rs)] :
                             IsSourceMap(src, gs, rs) /\ Injective(src)
                       /\ Len(gs) <= Len(rs)
    /\ (stdPc = "done" /\ Len(ret.err) = 0 /\ 2 * tolerance < interval) =>
          \A d \in Devices :
              Cardinality(StandardsOfDevice(d)) <= Cardinality(CleanOf(d))

\* A call returned two standards of one device with two clean readings under
\* 2 x Tolerance < interval, one of them away from its grid point by exactly
\* the tolerance.
C38_Witness ==
    /\ stdPc = "done" /\ Len(ret.err) = 0
    /\ 2 * tolerance < interval
    /\ tolerance > 0
    /\ \E d \in Devices :
          /\ Cardinality(StandardsOfDevice(d)) = 2
          /\ Cardinality(CleanOf(d)) = 2
          /\ \E k \in StandardsOfDevice(d) :
                \A r \in CleanOf(d) :
                    absDuration(r.ts - ret.standards[k].Timestamp) >= tolerance

\* ------------------------------------------------ delivery to downstream
\* The readings handed to the downstream callback so far, batch after batch.
RECURSIVE Flatten(_)
Flatten(calls_) ==
    IF Len(calls_) = 0 THEN << >>
    ELSE Head(calls_).batch \o Flatten(Tail(calls_))

DeliveredItems == [ k \in 1..Len(Flatten(delivered)) |-> Flatten(delivered)[k].item ]

\* The records read so far of which the ingestor has made a reading.
ParsedItems ==
    { i \in 1..inPos :
        IF format = "json"
        THEN Decode(input.recs[i]) /\ mapToDomain(i, input.recs[i]) # Nil
        ELSE Read(input.recs[i]) /\ parseRecord(i, input.recs[i]) # Nil }

\* C39: when an ingestion has returned, every reading the ingestor has
\* parsed was handed to the downstream callback exactly once and in input
\* order, in batches of at most 100 readings; when it returned without error
\* the number of readings handed over equals IngestionResult.Success; and no
\* batch was handed over after a downstream error.
C39_DeliveredOnceInOrder ==
    /\ \A k \in 1..Len(delivered) :
          /\ Len(delivered[k].batch) >= 1
          /\ Len(delivered[k].batch) <= batchSize
          /\ ~ delivered[k].ok => k = Len(delivered)
    /\ \A a, b \in 1..Len(DeliveredItems) : a < b => DeliveredItems[a] < DeliveredItems[b]
    /\ ingestPc = "done" =>
          /\ { DeliveredItems[k] : k \in 1..Len(DeliveredItems) } = ParsedItems
          /\ ingestRet.err = "" =>
                /\ ingestRet.result # Nil
                /\ Len(DeliveredItems) = ingestRet.result[1].Success

====
